---------------------------- MODULE Spec2Model ----------------------------
(***************************************************************************)
(* SlideStreamAI: the browser export pipeline of src/App.tsx               *)
(* (handleExportBrowser, recorder.onstop and the export button).           *)
(*                                                                         *)
(* The handler is an async function: it runs synchronously from one await  *)
(* to the next.  Each action below is one such run: the click, or the      *)
(* delivery of one awaited signal (audio context resumed, image loaded,    *)
(* source ended, dwell timer fired, recorder event) followed by the code   *)
(* up to the next await.  Every click creates a new closure; a closure is  *)
(* a session record in sess.                                               *)
(***************************************************************************)
EXTENDS Integers, Sequences, FiniteSets, TLC

VARIABLES
  state,   \* the AppState held by useState (src/App.tsx:16-29)
  sess,    \* the closures of handleExportBrowser, one record per slot
  guarded, \* history: the handler has returned at its guard (line 144)
  build,   \* the version of the application that is running
  frame,   \* one frame of the loop: canvas and image size, what was drawn
  player,  \* the PresentationPlayer component: its state, refs and events
  gen,     \* generation: apiKey, state.files, the runs of handleStartGeneration
  wav      \* a call of audioBufferToWav: its locals and the bytes it has written

vars == <<state, sess, guarded, build, frame, player, gen, wav>>

(***************************************************************************)
(* Bounds of the model and constants of the program.                       *)
(***************************************************************************)
MaxSlides == 3
MaxSessions == 2
LongDeck == 50
MaxChunks == 2
MaxImageSide == 11
MaxEnded == 2
MaxRuns == 2
MaxFiles == 2
MaxPages == 2
MaxNarrations == 3
MaxChannels == 2
MaxFrames == 3
FallbackDwellMs == 3000
BaseBitrate == 12000000
MaxBitrate == 100000000

Sessions == 1..MaxSessions

\* the two versions of handleExportBrowser in the repository: the one of
\* src/App.tsx and the earlier one of src/unnamed/part_003
Builds == {"App.tsx", "part_003"}

\* the values new Date().getTime() may return
Clock == {907, 1230}

NoError == "null"
ExportErrorMsg == "export failed"

(***************************************************************************)
(* Data: slides and narration segments (src/types.ts).                     *)
(***************************************************************************)
SlideData(k) == [index |-> k]

NarrationSegment(k, hasAudio) == [slideIndex |-> k, audioBuffer |-> hasAudio]

NoNarration == [slideIndex |-> -1, audioBuffer |-> FALSE]

\* a plausible slip: the last entry for the slide, as a lookup table built
\* from the narrations would give
FindLastNarrationIndex(narrations, index) ==
  LET hits == {j \in DOMAIN narrations : narrations[j].slideIndex = index}
  IN IF hits = {} THEN 0
     ELSE CHOOSE j \in hits : \A k \in hits : k <= j

\* the place in state.narrations of the entry that find returns, 0 when it
\* returns undefined
FindNarrationIndex(narrations, index) ==
  LET hits == {j \in DOMAIN narrations : narrations[j].slideIndex = index}
  IN IF hits = {} THEN 0
     ELSE CHOOSE j \in hits : \A k \in hits : j <= k

\* state.narrations.find(n => n.slideIndex === slide.index): the first match.
FindNarration(narrations, index) ==
  LET j == FindNarrationIndex(narrations, index)
  IN IF j = 0 THEN NoNarration ELSE narrations[j]

\* the place that the slide at position j of slides takes when the list is
\* sorted by index: after the slides of smaller index and after its equals
\* that come before it (Array.prototype.sort is stable)
PlaceByIndex(slides, j) ==
  1 + Cardinality({k \in DOMAIN slides :
                     \/ slides[k].index < slides[j].index
                     \/ slides[k].index = slides[j].index /\ k < j})

\* a plausible slip: the loop runs over state.slides as inserted
UnsortedSlides(slides) == slides

\* [...state.slides].sort((a, b) => a.index - b.index)
sortedSlides(slides) ==
  [p \in DOMAIN slides |->
     slides[CHOOSE j \in DOMAIN slides : PlaceByIndex(slides, j) = p]]

(***************************************************************************)
(* Number arithmetic of Math.floor((i / sortedSlides.length) * 100)        *)
(* (src/App.tsx:209).  An ECMAScript Number is an IEEE 754 binary64: the   *)
(* quotient and the product are each rounded to 53 significant bits, to    *)
(* nearest, ties to even.  A Number is modelled as                         *)
(* [m |-> <<1, m1, m2, m3, m4>>, exp |-> e]: the leading bit and four      *)
(* limbs of 13 bits, the value (2^52 + m1*2^39 + m2*2^26 + m3*2^13 + m4)   *)
(* * 2^(e - 52).  Every intermediate integer stays below 2^31.             *)
(***************************************************************************)
LimbBase == 2 ^ 13

RECURSIVE NormShift(_, _, _)
\* the least s with x * 2^s >= n, and x * 2^s
NormShift(x, n, s) ==
  IF x >= n THEN [x |-> x, s |-> s] ELSE NormShift(2 * x, n, s + 1)

RECURSIVE BitLen(_)
BitLen(v) == IF v = 0 THEN 0 ELSE 1 + BitLen(v \div 2)

\* the mantissa m plus one unit in the last place, renormalised
Round53(m, exp, up) ==
  IF ~up THEN [m |-> m, exp |-> exp]
  ELSE LET c4 == m[5] + 1
           c3 == m[4] + c4 \div LimbBase
           c2 == m[3] + c3 \div LimbBase
           c1 == m[2] + c2 \div LimbBase
           c0 == m[1] + c1 \div LimbBase
       IN IF c0 > 1
          THEN [m |-> <<1, 0, 0, 0, 0>>, exp |-> exp + 1]
          ELSE [m |-> <<1, c1 % LimbBase, c2 % LimbBase, c3 % LimbBase,
                        c4 % LimbBase>>,
                exp |-> exp]

\* i / n as a Number, for integers 0 < i < n < 2^17
NumberDiv(i, n) ==
  LET nm == NormShift(i, n, 0)
      r0 == nm.x - n
      d1 == (r0 * LimbBase) \div n
      r1 == (r0 * LimbBase) % n
      d2 == (r1 * LimbBase) \div n
      r2 == (r1 * LimbBase) % n
      d3 == (r2 * LimbBase) \div n
      r3 == (r2 * LimbBase) % n
      d4 == (r3 * LimbBase) \div n
      r4 == (r3 * LimbBase) % n
      up == \/ 2 * r4 > n
            \/ 2 * r4 = n /\ d4 % 2 = 1
  IN Round53(<<1, d1, d2, d3, d4>>, 0 - nm.s, up)

\* d * c as a Number, for an integer 1 <= c < 2^13
NumberMul(d, c) ==
  LET t4 == d.m[5] * c
      t3 == d.m[4] * c + t4 \div LimbBase
      t2 == d.m[3] * c + t3 \div LimbBase
      t1 == d.m[2] * c + t2 \div LimbBase
      t0 == d.m[1] * c + t1 \div LimbBase
      \* the exact product, limb by limb, t0 the top one
      p == <<t0, t1 % LimbBase, t2 % LimbBase, t3 % LimbBase, t4 % LimbBase>>
      D == BitLen(t0) - 1            \* bits beyond the 53 kept
      lo == 2 ^ D
      hi == LimbBase \div lo
      k == [j \in 1..5 |->
              IF j = 1 THEN p[1] \div lo
              ELSE (p[j - 1] % lo) * hi + p[j] \div lo]
      dropped == p[5] % lo
      up == /\ D > 0
            /\ dropped >= lo \div 2
            /\ dropped % (lo \div 2) # 0 \/ k[5] % 2 = 1
  IN Round53(k, d.exp + D, up)

\* Math.floor of a positive Number below 2^27
NumberFloor(d) ==
  IF d.exp < 0 THEN 0
  ELSE IF d.exp <= 13
  THEN 2 ^ d.exp + d.m[2] \div (2 ^ (13 - d.exp))
  ELSE 2 ^ d.exp + d.m[2] * 2 ^ (d.exp - 13) + d.m[3] \div (2 ^ (26 - d.exp))

\* a plausible slip: the percentage of slides reached, counting this one
ProgressRoundedUp(i, n) == ((i + 1) * 100) \div n

\* Math.floor((i / sortedSlides.length) * 100), 0 <= i < n
Progress(i, n) ==
  IF i = 0 THEN 0 ELSE NumberFloor(NumberMul(NumberDiv(i, n), 100))

\* the values of Progress for every deck the model runs, computed once
ProgressTable ==
  [n \in 1..LongDeck |-> [i \in 0..(n - 1) |-> Progress(i, n)]]

(***************************************************************************)
(* The closure of one run of handleExportBrowser (src/App.tsx:143-252).    *)
(*   pc          where the async function is suspended                     *)
(*   build       the version of the handler that runs                      *)
(*   slides, narrations, aspectRatio, resolutionScale   the fields of      *)
(*               state as the closure captured them                        *)
(*   sorted, i   sortedSlides and the loop index (0-based, as in the code) *)
(*   canvas, videoBitsPerSecond   the canvas size and the recorder option  *)
(*   recorder, recEvents, chunks   the MediaRecorder, the events it still  *)
(*               has to deliver, and the chunks array; a chunk is          *)
(*               [id, size], size 0 for an empty Blob                      *)
(*   imgs, failedImgs     positions whose Image is loading / failed        *)
(*   playing, timers      started sources not yet ended; pending timers    *)
(*   downloads   the files handed to a.click(): [blob, filename], the blob *)
(*               a sequence of chunks                                      *)
(*   log         the calls made and signals received, in order             *)
(*   last        history: the output of the last call before this one that *)
(*               finished, <<>> when there is none                         *)
(***************************************************************************)
Ev(e, p, k, a) == [ev |-> e, pos |-> p, index |-> k, arg |-> a]

FreshSession ==
  [pc |-> "idle", build |-> "App.tsx", slides |-> <<>>, narrations |-> <<>>,
   aspectRatio |-> "16:9", resolutionScale |-> 1, sorted |-> <<>>,
   i |-> 0, canvas |-> [width |-> 0, height |-> 0], videoBitsPerSecond |-> 0,
   recorder |-> "none", recEvents |-> <<>>, chunks |-> <<>>,
   imgs |-> {}, failedImgs |-> {}, playing |-> {}, timers |-> {},
   buffers |-> <<>>, downloads |-> <<>>, log |-> <<>>, last |-> <<>>]

\* the slots whose closure has returned for good (or never ran)
Ended(r) == r.pc \in {"idle", "done", "errored"}

CurSlide(w) == w.se.sorted[w.se.i + 1]

Note(w, e, a) ==
  [w EXCEPT !.se.log = Append(@, Ev(e, w.se.i, CurSlide(w).index, a))]

\* a plausible slip: the catch block sets the error and leaves isExporting
CatchKeepsExporting(w) ==
  [w EXCEPT !.st.error = ExportErrorMsg,
            !.se.pc = "errored",
            !.se.log = Append(@, Ev("error", w.se.i, -1, 0))]

\* a plausible slip: the catch block stops the recorder it finds running,
\* and the recorder's stop event then finalizes the failed session
CatchStopsRecorder(w) ==
  LET w1 == [w EXCEPT !.st.error = ExportErrorMsg,
                      !.st.isExporting = FALSE,
                      !.se.pc = "errored",
                      !.se.log = Append(@, Ev("error", w.se.i, -1, 0))]
  IN IF w.se.recorder = "recording"
     THEN [w1 EXCEPT !.se.recorder = "inactive",
                     !.se.recEvents = <<"dataavailable", "stop">>]
     ELSE w1

\* catch (err) { setState(prev => ({...prev, error: ..., isExporting: false})) }
Catch(w) ==
  [w EXCEPT !.st.error = ExportErrorMsg,
            !.st.isExporting = FALSE,
            !.se.pc = "errored",
            !.se.log = Append(@, Ev("error", w.se.i, -1, 0))]

\* setState(prev => ({ ...prev, progress: Math.floor((i / length) * 100) }))
ReportProgress(w) ==
  LET v == ProgressTable[Len(w.se.sorted)][w.se.i]
  IN Note([w EXCEPT !.st.progress = v], "progress", v)

\* a plausible slip: the download and the clearing of isExporting follow
\* recorder.stop() in the handler instead of waiting in onstop
StopRecorderSync(w) ==
  [w EXCEPT !.se.recorder = "inactive",
            !.se.recEvents = <<"dataavailable", "stop">>,
            !.se.pc = "done",
            !.se.downloads = Append(@, [blob |-> w.se.chunks,
                                        filename |-> <<>>]),
            !.st.isExporting = FALSE,
            !.se.log = @ \o <<Ev("recorder.stop", w.se.i, -1, 0),
                              Ev("download", w.se.i, -1, Len(w.se.chunks))>>]

\* recorder.stop(): the recorder goes inactive and will deliver its data
\* and then its stop event
StopRecorder(w) ==
  [w EXCEPT !.se.recorder = "inactive",
            !.se.recEvents = <<"dataavailable", "stop">>,
            !.se.pc = "awaitStop",
            !.se.log = Append(@, Ev("recorder.stop", w.se.i, -1, 0))]

RECURSIVE SkipUnnarrated(_)
\* part_003: if (!narration?.audioBuffer) continue;
SkipUnnarrated(w) ==
  IF /\ w.se.build = "part_003"
     /\ w.se.i < Len(w.se.sorted)
     /\ ~FindNarration(w.se.narrations, CurSlide(w).index).audioBuffer
  THEN SkipUnnarrated([w EXCEPT !.se.i = @ + 1])
  ELSE w

\* the head of the for loop up to the await of img.onload, or, after the
\* last slide, recorder.stop()
LoopStep(w) ==
  LET w0 == SkipUnnarrated(w)
  IN IF w0.se.i < Len(w0.se.sorted)
     THEN LET w1 == ReportProgress(w0)
          IN [w1 EXCEPT !.se.imgs = @ \cup {w0.se.i}, !.se.pc = "awaitImg"]
     ELSE StopRecorder(w0)

\* i++ and the next iteration
NextSlide(w) == LoopStep([w EXCEPT !.se.i = @ + 1])

\* a plausible slip: only slides with narration audio are drawn
DrawSlideIfNarrated(w) ==
  IF FindNarration(w.se.narrations, CurSlide(w).index).audioBuffer
  THEN Note(w, "draw", 0) ELSE w

\* ctx.fillRect(...); ctx.drawImage(img, x, y, ...)
DrawSlide(w) == Note(w, "draw", 0)

\* a plausible slip: one source made for the first narrated slide and
\* restarted with a new buffer for the later ones
StartSourceShared(w) ==
  LET made == {j \in DOMAIN w.se.log : w.se.log[j].ev = "createBufferSource"}
      w1 == IF made = {}
            THEN Note(Note(w, "createBufferSource", 1), "connect", 1)
            ELSE w
  IN Note([w1 EXCEPT !.se.playing = @ \cup {w.se.i}], "play", 1)

\* const source = audioCtx.createBufferSource(); source.connect(dest);
\* source.start(): the sources of a call are numbered as they are created
StartSource(w) ==
  LET made == {j \in DOMAIN w.se.log : w.se.log[j].ev = "createBufferSource"}
      source == Cardinality(made) + 1
      w1 == Note(w, "createBufferSource", source)
      w2 == IF w.se.build = "part_003"
            THEN \* source.connect(dest); source.connect(audioCtx.destination)
                 Note(Note(w1, "connect", source), "connect.destination", source)
            ELSE Note(w1, "connect", source)
      \* source.buffer = narration.audioBuffer
      w3 == [w2 EXCEPT !.se.buffers =
               Append(@, [source |-> source,
                          narration |-> FindNarrationIndex(
                                          w.se.narrations, CurSlide(w).index)])]
  IN Note([w3 EXCEPT !.se.playing = @ \cup {w.se.i}], "play", source)

\* a plausible slip: source.start() without awaiting audioPlayPromise
PlayNarrationNoAwait(w, playOk) ==
  IF ~playOk THEN Catch(Note(w, "play.failed", 0))
  ELSE NextSlide(StartSource(w))

\* the source of the slide is made, connected and started, and the handler
\* awaits its onended; playOk is FALSE when creating or starting the
\* source throws
PlayNarration(w, playOk) ==
  IF ~playOk THEN Catch(Note(w, "play.failed", 0))
  ELSE [StartSource(w) EXCEPT !.se.pc = "awaitAudio"]

\* await new Promise(resolve => setTimeout(resolve, 3000))
Dwell(w) ==
  LET w1 == [w EXCEPT !.se.timers = @ \cup {[pos |-> w.se.i,
                                             ms |-> FallbackDwellMs]},
                      !.se.pc = "awaitDwell"]
  IN Note(w1, "timer", FallbackDwellMs)

\* a plausible slip: every slide is shown for the fixed dwell
SynchronizeTimerOnly(w, playOk) == Dwell(w)

\* a plausible slip: narration.audioBuffer without the optional chaining
\* throws a TypeError for a slide that has no narration entry
SynchronizeNoOptionalChaining(w, playOk) ==
  LET narration == FindNarration(w.se.narrations, CurSlide(w).index)
  IN IF narration = NoNarration THEN Catch(w)
     ELSE IF narration.audioBuffer THEN PlayNarration(w, playOk)
     ELSE Dwell(w)

\* if (narration?.audioBuffer) { ... } else { ... }
Synchronize(w, playOk) ==
  IF FindNarration(w.se.narrations, CurSlide(w).index).audioBuffer
  THEN PlayNarration(w, playOk)
  ELSE Dwell(w)

\* a plausible slip: the narration is started before the frame is drawn
PlayThenDraw(w, playOk) ==
  LET w1 == Synchronize(w, playOk)
  IN IF w1.se.pc = "errored" THEN w1
     ELSE [w1 EXCEPT !.se.log = Append(@, Ev("draw", w.se.i,
                                              CurSlide(w).index, 0))]

\* the loop body after the image has loaded: draw, then synchronize
DrawAndSynchronize(w, playOk) == Synchronize(DrawSlide(w), playOk)

\* a plausible slip: the scale is applied to the width alone
CanvasSizeWidthOnly(aspectRatio, resolutionScale) ==
  LET base == IF aspectRatio = "9:16" THEN <<720, 1280>>
              ELSE IF aspectRatio = "1:1" THEN <<1080, 1080>>
              ELSE IF aspectRatio = "4:3" THEN <<1024, 768>>
              ELSE <<1280, 720>>
  IN [width |-> base[1] * resolutionScale, height |-> base[2]]

\* switch (state.aspectRatio) { ... }; canvas.width = baseWidth * scale;
\* canvas.height = baseHeight * scale
CanvasSize(aspectRatio, resolutionScale) ==
  LET base == IF aspectRatio = "9:16" THEN <<720, 1280>>
              ELSE IF aspectRatio = "1:1" THEN <<1080, 1080>>
              ELSE IF aspectRatio = "4:3" THEN <<1024, 768>>
              ELSE <<1280, 720>>
  IN [width |-> base[1] * resolutionScale,
      height |-> base[2] * resolutionScale]

\* a plausible slip: the target bitrate is passed on without the cap
VideoBitsUncapped(resolutionScale) ==
  BaseBitrate * resolutionScale * resolutionScale

\* Math.min(12000000 * scale * scale, 100000000)
VideoBitsPerSecond(resolutionScale) ==
  LET targetBitrate == BaseBitrate * resolutionScale * resolutionScale
  IN IF targetBitrate < MaxBitrate THEN targetBitrate ELSE MaxBitrate

\* the canvas is created and sized (steps 1-2 up to getContext); in
\* part_003 canvas.width = 1280; canvas.height = 720
MakeCanvas(w) ==
  [w EXCEPT !.se.canvas =
     IF w.se.build = "part_003" THEN [width |-> 1280, height |-> 720]
     ELSE CanvasSize(w.se.aspectRatio, w.se.resolutionScale)]

\* the recorder is constructed with its options and started (steps 3-4);
\* part_003 passes a mimeType and no videoBitsPerSecond
StartRecorder(w) ==
  [w EXCEPT
     !.se.videoBitsPerSecond =
       IF w.se.build = "part_003" THEN 0
       ELSE VideoBitsPerSecond(w.se.resolutionScale),
     !.se.recorder = "recording",
     !.se.log = Append(@, Ev("recorder.start", 0, -1, 0))]

\* a failure of step 2 (arg 1: no 2D context) or step 3 (arg 2: the
\* MediaRecorder constructor throws)
InitFailed(w, cause) ==
  Catch([w EXCEPT !.se.log = Append(@, Ev("init.failed", 0, -1, cause))])

\* a plausible slip: the recorder is created and started before the
\* context is checked
SetupStartFirst(w, ctxOk, recOk) ==
  LET w1 == MakeCanvas(w)
  IN IF ~recOk THEN InitFailed(w1, 2)
     ELSE IF ~ctxOk THEN InitFailed(StartRecorder(w1), 1)
     ELSE LoopStep([StartRecorder(w1) EXCEPT
                      !.se.sorted = IF w.se.build = "part_003" THEN w.se.slides
                                    ELSE sortedSlides(w.se.slides)])

\* a plausible slip: state.slides.sort(...) without the copy, which sorts
\* the array held in state
SetupSortsInPlace(w, ctxOk, recOk) ==
  LET w1 == MakeCanvas(w)
  IN IF ~ctxOk THEN InitFailed(w1, 1)
     ELSE IF ~recOk THEN InitFailed(w1, 2)
     ELSE LoopStep([StartRecorder(w1) EXCEPT
                      !.se.sorted = IF w.se.build = "part_003" THEN w.se.slides
                                    ELSE sortedSlides(w.se.slides),
                      !.st.slides = IF w.se.build = "part_003" THEN w.st.slides
                                    ELSE sortedSlides(w.se.slides)])

\* steps 2-5 of the handler: canvas and context, stream and recorder,
\* recorder.start(), the sort (part_003 loops over state.slides as it is),
\* and the first turn of the loop
Setup(w, ctxOk, recOk) ==
  LET w1 == MakeCanvas(w)
  IN IF ~ctxOk THEN InitFailed(w1, 1)
     ELSE IF ~recOk THEN InitFailed(w1, 2)
     ELSE LoopStep([StartRecorder(w1) EXCEPT
                      !.se.sorted = IF w.se.build = "part_003" THEN w.se.slides
                                    ELSE sortedSlides(w.se.slides)])

(***************************************************************************)
(* The download (recorder.onstop).  A string is modelled as a sequence of  *)
(* atoms: the literal pieces of the template, and for the values put into  *)
(* it their digits and separators.                                         *)
(***************************************************************************)
AspectRatioText(aspectRatio) ==
  CASE aspectRatio = "16:9" -> <<"16", ":", "9">>
    [] aspectRatio = "9:16" -> <<"9", ":", "16">>
    [] aspectRatio = "1:1" -> <<"1", ":", "1">>
    [] aspectRatio = "4:3" -> <<"4", ":", "3">>

\* String.prototype.replace with a string pattern: the first occurrence
ReplaceFirst(text, from, to) ==
  IF \E j \in DOMAIN text : text[j] = from
  THEN LET first == CHOOSE j \in DOMAIN text :
                      /\ text[j] = from
                      /\ \A k \in 1..(j - 1) : text[k] # from
       IN [text EXCEPT ![first] = to]
  ELSE text

RECURSIVE NumberToString(_)
\* the decimal digits of a non-negative integer, as a template literal
\* writes it
NumberToString(n) ==
  LET digit == <<"0", "1", "2", "3", "4", "5", "6", "7", "8", "9">>[(n % 10) + 1]
  IN IF n < 10 THEN <<digit>> ELSE Append(NumberToString(n \div 10), digit)

\* a plausible slip: the aspect ratio is put into the name as it is
FilenameWithColon(aspectRatio, resolutionScale, now) ==
  <<"SlideStream", "_", "Concatenated", "_">>
    \o AspectRatioText(aspectRatio)
    \o <<"_">> \o NumberToString(resolutionScale) \o <<"x", "_">>
    \o NumberToString(now) \o <<".", "webm">>

\* `SlideStream_Concatenated_${state.aspectRatio.replace(':','x')}_
\* ${state.resolutionScale}x_${new Date().getTime()}.webm`
Filename(aspectRatio, resolutionScale, now) ==
  <<"SlideStream", "_", "Concatenated", "_">>
    \o ReplaceFirst(AspectRatioText(aspectRatio), ":", "x")
    \o <<"_">> \o NumberToString(resolutionScale) \o <<"x", "_">>
    \o NumberToString(now) \o <<".", "webm">>

\* part_003: `SlideStream_${new Date().getTime()}.webm`
LegacyFilename(now) ==
  <<"SlideStream", "_">> \o NumberToString(now) \o <<".", "webm">>

\* a.click() on the object URL of the blob
Download(w, blob, now) ==
  [w EXCEPT !.se.downloads =
              Append(@, [blob |-> blob,
                         filename |->
                           IF w.se.build = "part_003" THEN LegacyFilename(now)
                           ELSE Filename(w.se.aspectRatio,
                                         w.se.resolutionScale, now)]),
            !.se.log = Append(@, Ev("download", w.se.i, -1, Len(blob)))]

\* a plausible slip: finalization also reports completion
FinalizeWithProgress(w, now) ==
  [Download(w, w.se.chunks, now) EXCEPT !.st.isExporting = FALSE,
                                        !.st.progress = 100,
                                        !.se.pc = "done"]

\* a plausible slip: the blob is made of the chunk delivered last
FinalizeLastChunk(w, now) ==
  [Download(w, <<w.se.chunks[Len(w.se.chunks)]>>, now)
     EXCEPT !.st.isExporting = FALSE, !.se.pc = "done"]

\* a plausible slip: finalization also clears the error
FinalizeClearsError(w, now) ==
  [Download(w, w.se.chunks, now) EXCEPT !.st.isExporting = FALSE,
                                        !.st.error = NoError,
                                        !.se.pc = "done"]

\* recorder.onstop: the blob of all chunks is downloaded, isExporting cleared
Finalize(w, now) ==
  [Download(w, w.se.chunks, now) EXCEPT !.st.isExporting = FALSE,
                                        !.se.pc = "done"]

World(s) == [st |-> state, se |-> sess[s]]

Commit(s, w) ==
  /\ state' = w.st
  /\ sess' = [sess EXCEPT ![s] = w.se]
  /\ UNCHANGED <<guarded, build, frame, player, gen, wav>>

\* a plausible slip: && in place of ||
ExportGuardBothEmpty(st) == Len(st.slides) = 0 /\ Len(st.narrations) = 0

\* if (state.slides.length === 0 || state.narrations.length === 0) return;
ExportGuardReturns(st) == Len(st.slides) = 0 \/ Len(st.narrations) = 0

\* what a call has put out: the size of its canvas and the slides it drew
Output(se) ==
  LET draws == SelectSeq(se.log, LAMBDA e : e.ev = "draw")
  IN [canvas |-> se.canvas,
      frames |-> [j \in 1..Len(draws) |-> draws[j].index]]

\* a plausible slip: chunks declared outside the handler, so a later call
\* still holds the chunks of the call before
NewClosureSharedChunks(st, old) ==
  [FreshSession EXCEPT !.build = build,
                       !.slides = st.slides,
                       !.narrations = st.narrations,
                       !.aspectRatio = st.aspectRatio,
                       !.resolutionScale = st.resolutionScale,
                       !.chunks = old.chunks,
                       !.last = IF old.pc = "done" THEN <<Output(old)>>
                                ELSE old.last]

\* a plausible slip: the loop index declared outside the handler and not
\* reset, so a later call goes on where the call before stopped
NewClosureKeepsIndex(st, old) ==
  [FreshSession EXCEPT !.build = build,
                       !.slides = st.slides,
                       !.narrations = st.narrations,
                       !.aspectRatio = st.aspectRatio,
                       !.resolutionScale = st.resolutionScale,
                       !.i = old.i,
                       !.last = IF old.pc = "done" THEN <<Output(old)>>
                                ELSE old.last]

\* a call of the handler: it captures state, and its locals (canvas,
\* recorder, chunks, the loop index) are new; old is what the slot held
\* before
NewClosure(st, old) ==
  [FreshSession EXCEPT !.build = build,
                       !.slides = st.slides,
                       !.narrations = st.narrations,
                       !.aspectRatio = st.aspectRatio,
                       !.resolutionScale = st.resolutionScale,
                       !.last = IF old.pc = "done" THEN <<Output(old)>>
                                ELSE old.last]

\* a plausible slip: the button is not disabled while exporting
ExportButtonAlwaysEnabled == state.step = "ready"

\* the export button is rendered when step is 'ready', disabled={isExporting}
ExportButtonEnabled == state.step = "ready" /\ ~state.isExporting

(***************************************************************************)
(* Actions.                                                                *)
(***************************************************************************)
\* the click: the guard, setState, the audio context; when the context is
\* suspended the handler awaits resume() (part_003 does not look at the
\* state of the context), otherwise it runs on to the first await of the
\* loop
ExportClick(s) ==
  /\ ExportButtonEnabled
  /\ Ended(sess[s])
  /\ \A t \in Sessions : t < s => ~Ended(sess[t])
  /\ IF ExportGuardReturns(state)
     THEN guarded' = TRUE /\ UNCHANGED <<state, sess, build, frame, player, gen, wav>>
     ELSE LET w0 == [st |-> [state EXCEPT !.isExporting = TRUE,
                                          !.progress = 0],
                     se |-> NewClosure(state, sess[s])]
          IN \E suspended \in {b \in BOOLEAN : b => build = "App.tsx"} :
               IF suspended
               THEN Commit(s, [w0 EXCEPT !.se.pc = "awaitResume"])
               ELSE \E ctxOk, recOk \in BOOLEAN :
                      Commit(s, Setup(w0, ctxOk, recOk))

\* audioCtx.resume() settles
ResumeSettled(s) ==
  /\ sess[s].pc = "awaitResume"
  /\ \E resumed \in BOOLEAN :
       IF resumed
       THEN \E ctxOk, recOk \in BOOLEAN :
              Commit(s, Setup(World(s), ctxOk, recOk))
       ELSE Commit(s, Catch(World(s)))

\* img.onload fires and the handler waiting for it goes on
ImgLoad(s) ==
  \E p \in sess[s].imgs :
    LET w0 == [World(s) EXCEPT !.se.imgs = @ \ {p},
                               !.se.log = Append(@, Ev("load", p,
                                   sess[s].sorted[p + 1].index, 0))]
    IN IF sess[s].pc = "awaitImg" /\ sess[s].i = p
       THEN \E playOk \in BOOLEAN :
              /\ playOk \/ FindNarration(sess[s].narrations,
                                         sess[s].sorted[p + 1].index).audioBuffer
              /\ Commit(s, DrawAndSynchronize(w0, playOk))
       ELSE Commit(s, w0)

\* the image cannot be decoded: the Image fires error; no handler is set
ImgError(s) ==
  \E p \in sess[s].imgs :
    Commit(s, [World(s) EXCEPT !.se.imgs = @ \ {p},
                               !.se.failedImgs = @ \cup {p},
                               !.se.log = Append(@, Ev("imgerror", p,
                                   sess[s].sorted[p + 1].index, 0))])

\* source.onended fires and the handler waiting for it goes on
AudioEnded(s) ==
  \E p \in sess[s].playing :
    LET w0 == [World(s) EXCEPT !.se.playing = @ \ {p},
                               !.se.log = Append(@, Ev("ended", p,
                                   sess[s].sorted[p + 1].index, 0))]
    IN IF sess[s].pc = "awaitAudio" /\ sess[s].i = p
       THEN Commit(s, NextSlide(w0))
       ELSE Commit(s, w0)

\* the dwell timer fires and the handler waiting for it goes on
DwellTimeout(s) ==
  \E t \in sess[s].timers :
    LET w0 == [World(s) EXCEPT !.se.timers = @ \ {t},
                               !.se.log = Append(@, Ev("timeout", t.pos,
                                   sess[s].sorted[t.pos + 1].index, t.ms))]
    IN IF sess[s].pc = "awaitDwell" /\ sess[s].i = t.pos
       THEN Commit(s, NextSlide(w0))
       ELSE Commit(s, w0)

\* the stopped recorder delivers its data in one or more dataavailable
\* events (chunks.push(e.data), the data possibly empty), then stop; now is
\* what new Date().getTime() returns in onstop
RecorderEvent(s) ==
  /\ sess[s].recEvents # <<>>
  /\ IF Head(sess[s].recEvents) = "dataavailable"
     THEN \E size \in {0, 1} :
            \E more \in {m \in BOOLEAN : m => Len(sess[s].chunks) + 1 < MaxChunks} :
              Commit(s, [World(s) EXCEPT
                           !.se.recEvents = IF more THEN @ ELSE Tail(@),
                           !.se.chunks =
                             Append(@, [id |-> Len(@) + 1, size |-> size])])
     ELSE \E now \in Clock :
            Commit(s, Finalize([World(s) EXCEPT !.se.recEvents = Tail(@)], now))

Next ==
  \E s \in Sessions :
    \/ ExportClick(s)
    \/ ResumeSettled(s)
    \/ ImgLoad(s)
    \/ ImgError(s)
    \/ AudioEnded(s)
    \/ DwellTimeout(s)
    \/ RecorderEvent(s)

(***************************************************************************)
(* Initial states: the application at step 'ready'.                        *)
(***************************************************************************)
Deck(n) == [k \in 1..n |-> SlideData(k - 1)]

\* one narration entry per slide that has one, in slide order
NarrationsOf(n, kind) ==
  SelectSeq([k \in 1..n |-> IF kind[k] = "none" THEN NoNarration
                            ELSE NarrationSegment(k - 1, kind[k] = "audio")],
            LAMBDA x : x # NoNarration)

AspectRatios == {"16:9", "9:16", "1:1", "4:3"}

ResolutionScales == 1..4

ConfiguredState(slides, narrations, aspectRatio, resolutionScale) ==
  [slides |-> slides, narrations |-> narrations, step |-> "ready",
   aspectRatio |-> aspectRatio, resolutionScale |-> resolutionScale,
   isExporting |-> FALSE, progress |-> 100, error |-> NoError]

\* audioBufferToWav is not running
NoWav == [pc |-> "none"]

\* generation is over: nothing of it is left running
NoGen == [apiKey |-> TRUE, showKeyModal |-> FALSE, files |-> <<>>,
          runs |-> <<>>]

\* the PresentationPlayer is not mounted
NoPlayer == [slides |-> 0, narrated |-> {}, currentSlideIndex |-> 0,
             isPlaying |-> FALSE, sourceNode |-> <<>>, ended |-> <<>>,
             mounted |-> FALSE]

\* no frame under study: the export loop is modelled without its geometry
NoFrame == [canvas |-> [width |-> 0, height |-> 0],
            img |-> [width |-> 0, height |-> 0], drawn |-> <<>>]

\* the configuration left at its initial values (src/App.tsx:21-22)
ReadyState(slides, narrations) ==
  ConfiguredState(slides, narrations, "16:9", 4)

\* after handleStartGeneration: slides 0..n-1 in order, every narration
\* entry with its decoded audio
Init ==
  /\ \E n \in 1..MaxSlides :
       \E kind \in [1..n -> {"none", "audio"}] :
         state = ReadyState(Deck(n), NarrationsOf(n, kind))
  /\ sess = [s \in Sessions |-> FreshSession]
  /\ guarded = FALSE
  /\ build = "App.tsx"
  /\ frame = NoFrame
  /\ player = NoPlayer
  /\ gen = NoGen
  /\ wav = NoWav

\* every AppState the handler accepts: no slide at all or slides in any
\* insertion order, narration entries with or without decoded audio
InitInputs ==
  /\ \E n \in 0..MaxSlides :
       \E perm \in Permutations(1..n) :
         \E kind \in [1..n -> {"none", "silent", "audio"}] :
           state = ReadyState([k \in 1..n |-> SlideData(perm[k] - 1)],
                              NarrationsOf(n, kind))
  /\ sess = [s \in Sessions |-> FreshSession]
  /\ guarded = FALSE
  /\ build = "App.tsx"
  /\ frame = NoFrame
  /\ player = NoPlayer
  /\ gen = NoGen
  /\ wav = NoWav

\* the narrations the script service may give: any list of entries, with
\* more than one entry for a slide and entries for no slide of the deck
\* (slideIndex n), all voiced
InitNarrations ==
  /\ \E n \in 1..MaxSlides, len \in 1..MaxNarrations :
       \E slideIndex \in [1..len -> 0..n] :
         state = ReadyState(Deck(n),
                            [j \in 1..len |->
                               NarrationSegment(slideIndex[j], TRUE)])
  /\ sess = [s \in Sessions |-> FreshSession]
  /\ guarded = FALSE
  /\ build = "App.tsx"
  /\ frame = NoFrame
  /\ player = NoPlayer
  /\ gen = NoGen
  /\ wav = NoWav

\* long decks, narrated throughout or on every other slide
InitLong ==
  /\ \E kind \in {[k \in 1..LongDeck |-> "audio"],
                  [k \in 1..LongDeck |-> IF k % 2 = 1 THEN "audio" ELSE "none"]} :
       state = ReadyState(Deck(LongDeck), NarrationsOf(LongDeck, kind))
  /\ sess = [s \in Sessions |-> FreshSession]
  /\ guarded = FALSE
  /\ build = "App.tsx"
  /\ frame = NoFrame
  /\ player = NoPlayer
  /\ gen = NoGen
  /\ wav = NoWav

\* every export configuration the dashboard offers, for one deck of two
\* slides held out of order, of which slide 0 is narrated
InitConfig ==
  /\ \E aspectRatio \in AspectRatios :
       \E resolutionScale \in ResolutionScales :
         state = ConfiguredState(<<SlideData(1), SlideData(0)>>,
                                 <<NarrationSegment(0, TRUE)>>,
                                 aspectRatio, resolutionScale)
  /\ sess = [s \in Sessions |-> FreshSession]
  /\ guarded = FALSE
  /\ build = "App.tsx"
  /\ frame = NoFrame
  /\ player = NoPlayer
  /\ gen = NoGen
  /\ wav = NoWav

\* either version of the application, after generation
InitBuilds ==
  /\ \E n \in 1..MaxSlides :
       \E kind \in [1..n -> {"none", "audio"}] :
         state = ReadyState(Deck(n), NarrationsOf(n, kind))
  /\ sess = [s \in Sessions |-> FreshSession]
  /\ guarded = FALSE
  /\ build \in Builds
  /\ frame = NoFrame
  /\ player = NoPlayer
  /\ gen = NoGen
  /\ wav = NoWav

Spec == Init /\ [][Next]_vars

SpecBuilds == InitBuilds /\ [][Next]_vars

SpecNarrations == InitNarrations /\ [][Next]_vars

\* the signals a handler awaits are delivered: a promise that can settle
\* settles, a pending event or timer fires
SpecFair ==
  /\ Init
  /\ [][Next]_vars
  /\ \A s \in Sessions :
       /\ WF_vars(ResumeSettled(s))
       /\ WF_vars(ImgLoad(s))
       /\ WF_vars(AudioEnded(s))
       /\ WF_vars(DwellTimeout(s))
       /\ WF_vars(RecorderEvent(s))

SpecConfig == InitConfig /\ [][Next]_vars

SpecInputs == InitInputs /\ [][Next]_vars

SpecLong == InitLong /\ [][Next]_vars

(***************************************************************************)
(* The frame of one slide (src/App.tsx:216-222): fillRect over the canvas, *)
(* then drawImage at (x, y) with the size (img.width * scale,              *)
(* img.height * scale).  scale and the size are Numbers as above.  An      *)
(* offset is kept as [sign, twice]: its sign and the magnitude of 2 * x    *)
(* in fixed point, <<I, f1, f2, f3, f4>> of value                          *)
(* I + f1/2^13 + f2/2^26 + f3/2^39 + f4/2^52.  Halving a Number is exact,  *)
(* so (img.width / 2) * scale is the drawn width halved, and               *)
(* x = fl(canvas.width/2 - width/2) is fl(canvas.width - width) halved.    *)
(***************************************************************************)
RECURSIVE DownShift(_, _, _)
\* the greatest n = b * 2^s with n <= a, for a >= b
DownShift(a, b, s) ==
  IF 2 * b > a THEN [n |-> b, s |-> s] ELSE DownShift(a, 2 * b, s + 1)

\* a / b as a Number, for integers 0 < a, b < 2^13
NumberQuotient(a, b) ==
  IF a < b THEN NumberDiv(a, b)
  ELSE LET ds == DownShift(a, b, 0)
           q == NumberDiv(a, 2 * ds.n)
       IN [m |-> q.m, exp |-> q.exp + ds.s + 1]

\* a < b for Numbers
NumberLess(a, b) ==
  \/ a.exp < b.exp
  \/ /\ a.exp = b.exp
     /\ \E j \in 1..5 :
          /\ a.m[j] < b.m[j]
          /\ \A k \in 1..(j - 1) : a.m[k] = b.m[k]

\* Math.min
NumberMin(a, b) == IF NumberLess(b, a) THEN b ELSE a

\* a Number with 0 <= exp <= 12 in fixed point
ToFix(d) ==
  LET up == 2 ^ d.exp
      down == LimbBase \div up
  IN [j \in 1..5 |->
        IF j = 5 THEN (d.m[5] % down) * up
        ELSE (d.m[j] % down) * up + d.m[j + 1] \div down]

FixOfInt(c) == <<c, 0, 0, 0, 0>>

FixLess(a, b) ==
  \E j \in 1..5 : a[j] < b[j] /\ \A k \in 1..(j - 1) : a[k] = b[k]

\* a - b in fixed point, for a >= b
FixSub(a, b) ==
  LET d5 == a[5] - b[5]
      b5 == IF d5 < 0 THEN 1 ELSE 0
      d4 == a[4] - b[4] - b5
      b4 == IF d4 < 0 THEN 1 ELSE 0
      d3 == a[3] - b[3] - b4
      b3 == IF d3 < 0 THEN 1 ELSE 0
      d2 == a[2] - b[2] - b3
      b2 == IF d2 < 0 THEN 1 ELSE 0
  IN <<a[1] - b[1] - b2, d2 + b2 * LimbBase, d3 + b3 * LimbBase,
       d4 + b4 * LimbBase, d5 + b5 * LimbBase>>

\* a + b + c in fixed point
FixSum(a, b, c) ==
  LET s5 == a[5] + b[5] + c[5]
      s4 == a[4] + b[4] + c[4] + s5 \div LimbBase
      s3 == a[3] + b[3] + c[3] + s4 \div LimbBase
      s2 == a[2] + b[2] + c[2] + s3 \div LimbBase
  IN <<a[1] + b[1] + c[1] + s2 \div LimbBase, s2 % LimbBase, s3 % LimbBase,
       s4 % LimbBase, s5 % LimbBase>>

\* a fixed-point value rounded to 53 significant bits, ties to even: the
\* bits below the 53rd are those of the last limb that the integer part
\* pushes out
RoundFix(f) ==
  LET drop == IF f[1] = 0 THEN 0 ELSE BitLen(f[1]) - 1
      lo == 2 ^ drop
      dropped == f[5] % lo
      kept == f[5] - dropped
      up == /\ drop > 0
            /\ \/ 2 * dropped > lo
               \/ 2 * dropped = lo /\ (f[5] \div lo) % 2 = 1
      r5 == IF up THEN kept + lo ELSE kept
      r4 == f[4] + r5 \div LimbBase
      r3 == f[3] + r4 \div LimbBase
      r2 == f[2] + r3 \div LimbBase
  IN <<f[1] + r2 \div LimbBase, r2 % LimbBase, r3 % LimbBase,
       r4 % LimbBase, r5 % LimbBase>>

\* (canvas.width / 2) - (img.width / 2) * scale, given the canvas side c
\* and the drawn side d = img.width * scale
Offset(c, d) ==
  LET C == FixOfInt(c)
      D == ToFix(d)
  IN IF FixLess(C, D) THEN [sign |-> -1, twice |-> RoundFix(FixSub(D, C))]
     ELSE [sign |-> IF C = D THEN 0 ELSE 1, twice |-> RoundFix(FixSub(C, D))]

\* ctx.fillRect(0, 0, canvas.width, canvas.height); scale = Math.min(...);
\* ctx.drawImage(img, x, y, img.width * scale, img.height * scale)
DrawImage(canvas, img) ==
  LET scale == NumberMin(NumberQuotient(canvas.width, img.width),
                         NumberQuotient(canvas.height, img.height))
      width == NumberMul(scale, img.width)
      height == NumberMul(scale, img.height)
  IN [fill |-> [x |-> 0, y |-> 0, width |-> canvas.width,
                height |-> canvas.height],
      scale |-> scale, width |-> width, height |-> height,
      x |-> Offset(canvas.width, width),
      y |-> Offset(canvas.height, height)]

\* the frame of the slide is drawn
DrawFrame ==
  /\ frame # NoFrame
  /\ frame.drawn = <<>>
  /\ frame' = [frame EXCEPT !.drawn = <<DrawImage(frame.canvas, frame.img)>>]
  /\ UNCHANGED <<state, sess, guarded, build, player, gen, wav>>

\* an image has loaded in the loop: any of the canvases the configuration
\* gives, an image of up to MaxImageSide pixels a side
InitFrame ==
  /\ state = ReadyState(<<>>, <<>>)
  /\ sess = [s \in Sessions |-> FreshSession]
  /\ guarded = FALSE
  /\ build = "App.tsx"
  /\ player = NoPlayer
  /\ gen = NoGen
  /\ wav = NoWav
  /\ \E aspectRatio \in AspectRatios, resolutionScale \in ResolutionScales :
       \E iw, ih \in 1..MaxImageSide :
         frame = [canvas |-> CanvasSize(aspectRatio, resolutionScale),
                  img |-> [width |-> iw, height |-> ih],
                  drawn |-> <<>>]

SpecFrame == InitFrame /\ [][DrawFrame]_vars

(***************************************************************************)
(* PresentationPlayer (src/unnamed/part_001).  player.slides is            *)
(* slides.length, player.narrated the slide indices whose narration has an *)
(* audioBuffer, player.sourceNode is sourceNodeRef.current (<<>> for null) *)
(* with the values its onended closure captured, and player.ended is the   *)
(* queue of 'ended' events that were fired and not yet handled.  An        *)
(* AudioBufferSourceNode fires 'ended' once, when its buffer runs out or   *)
(* when stop() is called, whichever is first.  A state update, the render  *)
(* that follows and the effect of that render are one step.                *)
(***************************************************************************)
\* stopAudio: sourceNodeRef.current.stop(); sourceNodeRef.current = null
stopAudio(p, cause) ==
  IF p.sourceNode = <<>> THEN p
  ELSE LET source == p.sourceNode[1]
       IN [p EXCEPT
             !.sourceNode = <<>>,
             !.ended = IF source.live
                       THEN Append(@, [index |-> source.index,
                                       isPlaying |-> source.isPlaying,
                                       cause |-> cause])
                       ELSE @]

\* playSlideAudio(index): the source keeps the index and the isPlaying of
\* the render that made the callback
playSlideAudio(p, index) ==
  LET q == stopAudio(p, "play")
  IN IF index \notin q.narrated THEN q
     ELSE [q EXCEPT !.sourceNode = <<[index |-> index,
                                     isPlaying |-> q.isPlaying,
                                     live |-> TRUE]>>]

\* the render after a state update and the effect of lines 54-61: no render
\* when nothing changed; slides[currentSlideIndex].image throws when the
\* index is out of range and the component is unmounted; otherwise the
\* cleanup of the previous effect, then the effect
Render(p, isPlaying, index, cause) ==
  LET q == [p EXCEPT !.isPlaying = isPlaying, !.currentSlideIndex = index]
  IN IF isPlaying = p.isPlaying /\ index = p.currentSlideIndex THEN p
     ELSE IF index \notin 0..(q.slides - 1)
     THEN [stopAudio(q, "unmount") EXCEPT !.mounted = FALSE]
     ELSE IF isPlaying THEN playSlideAudio(stopAudio(q, cause), index)
     ELSE stopAudio(q, cause)

\* source.onended of lines 39-47, with the index and isPlaying it captured
onended(p, e) ==
  IF e.index < p.slides - 1 /\ e.isPlaying
  THEN Render(p, p.isPlaying, p.currentSlideIndex + 1, "advance")
  ELSE IF e.index = p.slides - 1
  THEN Render(p, FALSE, p.currentSlideIndex, "finish")
  ELSE p

\* the play/pause button: setIsPlaying(!isPlaying)
PlayPauseClick ==
  /\ player.mounted
  /\ Len(player.ended) < MaxEnded
  /\ player' = Render(player, ~player.isPlaying, player.currentSlideIndex,
                      IF player.isPlaying THEN "pause" ELSE "play")
  /\ UNCHANGED <<state, sess, guarded, build, frame, gen, wav>>

\* handleNext
NextClick ==
  /\ player.mounted
  /\ Len(player.ended) < MaxEnded
  /\ player.currentSlideIndex < player.slides - 1
  /\ player' = Render(player, player.isPlaying,
                      player.currentSlideIndex + 1, "next")
  /\ UNCHANGED <<state, sess, guarded, build, frame, gen, wav>>

\* handlePrev
PrevClick ==
  /\ player.mounted
  /\ Len(player.ended) < MaxEnded
  /\ player.currentSlideIndex > 0
  /\ player' = Render(player, player.isPlaying,
                      player.currentSlideIndex - 1, "prev")
  /\ UNCHANGED <<state, sess, guarded, build, frame, gen, wav>>

\* a thumbnail: setCurrentSlideIndex(idx); setIsPlaying(false)
ThumbnailClick ==
  /\ player.mounted
  /\ Len(player.ended) < MaxEnded
  /\ \E idx \in 0..(player.slides - 1) :
       player' = Render(player, FALSE, idx, "thumbnail")
  /\ UNCHANGED <<state, sess, guarded, build, frame, gen, wav>>

\* the buffer of the current source runs out
SourceRunsOut ==
  /\ player.mounted
  /\ Len(player.ended) < MaxEnded
  /\ player.sourceNode # <<>>
  /\ player.sourceNode[1].live
  /\ player' = [player EXCEPT
                  !.sourceNode[1].live = FALSE,
                  !.ended = Append(@, [index |-> player.sourceNode[1].index,
                                       isPlaying |->
                                         player.sourceNode[1].isPlaying,
                                       cause |-> "natural"])]
  /\ UNCHANGED <<state, sess, guarded, build, frame, gen, wav>>

\* the oldest 'ended' event is handled
EndedEvent ==
  /\ player.mounted
  /\ player.ended # <<>>
  /\ player' = onended([player EXCEPT !.ended = Tail(@)], Head(player.ended))
  /\ UNCHANGED <<state, sess, guarded, build, frame, gen, wav>>

\* the component is mounted with a deck: slide 0, paused
InitPlayer ==
  /\ state = ReadyState(<<>>, <<>>)
  /\ sess = [s \in Sessions |-> FreshSession]
  /\ guarded = FALSE
  /\ build = "App.tsx"
  /\ frame = NoFrame
  /\ gen = NoGen
  /\ wav = NoWav
  /\ \E n \in 1..MaxSlides :
       \E narrated \in SUBSET (0..(n - 1)) :
         player = [slides |-> n, narrated |-> narrated,
                   currentSlideIndex |-> 0, isPlaying |-> FALSE,
                   sourceNode |-> <<>>, ended |-> <<>>, mounted |-> TRUE]

NextPlayer ==
  \/ PlayPauseClick
  \/ NextClick
  \/ PrevClick
  \/ ThumbnailClick
  \/ SourceRunsOut
  \/ EndedEvent

SpecPlayer == InitPlayer /\ [][NextPlayer]_vars

(***************************************************************************)
(* handleStartGeneration (src/App.tsx:51-104).  gen.files is state.files   *)
(* (each file by its kind), gen.apiKey whether the key is set, and         *)
(* gen.runs[r] the closure of one call: pc where the async function is     *)
(* suspended, files the state.files it captured, k the file the loop is    *)
(* at, allSlides and slideCounter the locals of the file loop, reported    *)
(* the progress values the call has set so far, narrations the local       *)
(* updatedNarrations and i the index of the voicing loop.                  *)
(***************************************************************************)
Runs == 1..MaxRuns

FileKinds == {"pdf", "image", "other"}

NoSlidesMsg == "no valid slides"
DefaultErrorMsg == "generation failed"

\* what an await may reject with: an Error with a message, or a value
\* without one (the ProgressEvent of reader.onerror, an empty message)
Rejections == {"rejected", ""}

FreshRun == [pc |-> "idle", files |-> <<>>, k |-> 0, allSlides |-> <<>>,
             slideCounter |-> 0, reported |-> <<>>,
             narrations |-> <<>>, i |-> 0]

\* err.message || "..."
ErrorText(err) == IF err = "" THEN DefaultErrorMsg ELSE err

\* the catch block, lines 100-103
GenFail(w, err) ==
  [w EXCEPT !.st.step = "idle", !.st.error = ErrorText(err),
            !.run.pc = "failed"]

\* processPdf (src/services/pdf.ts): one slide per page, index i - 1 for
\* page i
processPdf(pages) == [j \in 1..pages |-> SlideData(j - 1)]

\* a plausible slip: the slides of a PDF keep the index processPdf gave them
IngestPdfOwnIndex(run, pdfSlides) ==
  [run EXCEPT !.allSlides = @ \o pdfSlides,
              !.slideCounter = @ + Len(pdfSlides)]

\* allSlides = [...allSlides,
\*              ...pdfSlides.map(s => ({ ...s, index: slideCounter++ }))]
IngestPdf(run, pdfSlides) ==
  [run EXCEPT
     !.allSlides = @ \o [j \in 1..Len(pdfSlides) |->
                           [pdfSlides[j] EXCEPT
                              !.index = run.slideCounter + j - 1]],
     !.slideCounter = @ + Len(pdfSlides)]

\* allSlides.push({ index: slideCounter++, image: base64, ... })
IngestImage(run) ==
  [run EXCEPT !.allSlides = Append(@, SlideData(run.slideCounter)),
              !.slideCounter = @ + 1]

\* a plausible slip: the voicing stage is given 45 points of progress
VoicingProgressWide(i, n) ==
  IF i + 1 = n THEN 105
  ELSE 60 + NumberFloor(NumberMul(NumberDiv(i + 1, n), 45))

\* 60 + Math.floor(((i + 1) / updatedNarrations.length) * 35)
VoicingProgress(i, n) ==
  IF i + 1 = n THEN 95
  ELSE 60 + NumberFloor(NumberMul(NumberDiv(i + 1, n), 35))

\* the head of the voicing loop: the next generateAudio is awaited, or the
\* loop is over and the step is 'ready' (line 99)
VoiceLoop(w) ==
  IF w.run.i < Len(w.run.narrations)
  THEN [w EXCEPT !.run.pc = "voicing"]
  ELSE [w EXCEPT !.st.step = "ready", !.st.progress = 100,
                 !.run.reported = Append(@, 100), !.run.pc = "done"]

\* lines 76-81: the narrations without audio and step 'voicing'
StartVoicing(w, items) ==
  LET narrations == [j \in 1..Len(items) |-> NarrationSegment(items[j], FALSE)]
  IN [w EXCEPT !.st.narrations = narrations, !.st.step = "voicing",
               !.st.progress = 60, !.run.reported = Append(@, 60),
               !.run.narrations = narrations,
               !.run.i = 0, !.run.pc = "voiceStart"]

\* lines 83-87: the AudioContext, then the loop
EnterVoiceLoop(w, ctxOk) ==
  IF ctxOk THEN VoiceLoop(w) ELSE GenFail(w, "rejected")

\* lines 71-75: no slide is an error; otherwise the slides, step
\* 'scripting', and generateScripts is awaited
StartScripting(w) ==
  IF Len(w.run.allSlides) = 0 THEN GenFail(w, NoSlidesMsg)
  ELSE [w EXCEPT !.st.slides = w.run.allSlides,
                 !.st.step = "scripting", !.st.progress = 30,
                 !.run.reported = Append(@, 30),
                 !.run.pc = "scripting"]

RECURSIVE ParseFiles(_)
\* the file loop of lines 61-69 up to its next await: a file that is
\* neither a PDF nor an image is passed over
ParseFiles(w) ==
  IF w.run.k > Len(w.run.files) THEN StartScripting(w)
  ELSE IF w.run.files[w.run.k] = "other"
  THEN ParseFiles([w EXCEPT !.run.k = @ + 1])
  ELSE [w EXCEPT !.run.pc = "parsing"]

\* lines 56-59, then the loop
StartGeneration(w, files) ==
  ParseFiles([w EXCEPT !.st.step = "parsing", !.st.progress = 10,
                       !.st.error = NoError,
                       !.run.files = files, !.run.k = 1,
                       !.run.allSlides = <<>>, !.run.slideCounter = 0,
                       !.run.reported = <<10>>])

\* lines 87-97 after decodeAudioData: the buffer, the narrations and the
\* progress, then i++
StoreAudio(w) ==
  LET i == w.run.i
      updated == [w.run.narrations EXCEPT ![i + 1].audioBuffer = TRUE]
  IN VoiceLoop([w EXCEPT !.run.narrations = updated,
                         !.st.narrations = updated,
                         !.st.progress = VoicingProgress(i, Len(updated)),
                         !.run.reported =
                           Append(@, VoicingProgress(i, Len(updated))),
                         !.run.i = i + 1])

\* the slide indices of a set, in ascending order
RECURSIVE Ascending(_)
Ascending(S) ==
  IF S = {} THEN <<>>
  ELSE LET m == CHOOSE x \in S : \A y \in S : x <= y
       IN <<m>> \o Ascending(S \ {m})

GenWorld(r) == [st |-> state, run |-> gen.runs[r]]

GenCommit(r, w) ==
  /\ state' = w.st
  /\ gen' = [gen EXCEPT !.runs[r] = w.run]
  /\ UNCHANGED <<sess, guarded, build, frame, player, wav>>

\* a call is between two statements with no await in between: it runs on
\* before any other event is handled
Running == \E r \in Runs : gen.runs[r].pc = "voiceStart"

\* the Generate button of the Dashboard, which is rendered while the step
\* is not 'ready' and is disabled only when there is no file
GenerateClick(r) ==
  /\ ~Running
  /\ gen.runs[r].pc = "idle"
  /\ \A q \in 1..(r - 1) : gen.runs[q].pc # "idle"
  /\ state.step # "ready"
  /\ Len(gen.files) > 0
  /\ IF ~gen.apiKey
     THEN /\ gen' = [gen EXCEPT !.showKeyModal = TRUE]
          /\ UNCHANGED <<state, sess, guarded, build, frame, player, wav>>
     ELSE GenCommit(r, StartGeneration(GenWorld(r), gen.files))

\* handleSaveKey with a key typed in
SaveKey ==
  /\ ~Running
  /\ gen.showKeyModal
  /\ gen' = [gen EXCEPT !.apiKey = TRUE, !.showKeyModal = FALSE]
  /\ UNCHANGED <<state, sess, guarded, build, frame, player, wav>>

\* the X of the key dialog: setShowKeyModal(false)
CloseKeyModal ==
  /\ ~Running
  /\ gen.showKeyModal
  /\ gen' = [gen EXCEPT !.showKeyModal = FALSE]
  /\ UNCHANGED <<state, sess, guarded, build, frame, player, wav>>

\* await processPdf(file) or await fileToBase64(file) settles
FileParsed(r) ==
  /\ ~Running
  /\ gen.runs[r].pc = "parsing"
  /\ LET w == GenWorld(r)
         file == w.run.files[w.run.k]
     IN \/ \E err \in Rejections : GenCommit(r, GenFail(w, err))
        \/ /\ file = "pdf"
           /\ \E pages \in 1..MaxPages :
                GenCommit(r, ParseFiles([w EXCEPT
                  !.run = [IngestPdf(@, processPdf(pages)) EXCEPT !.k = @ + 1]]))
        \/ /\ file = "image"
           /\ GenCommit(r, ParseFiles([w EXCEPT
                  !.run = [IngestImage(@) EXCEPT !.k = @ + 1]]))

\* await generateScripts(...) settles: it resolves with the items the
\* service parsed, none at all when the reply could not be parsed
ScriptsGenerated(r) ==
  /\ ~Running
  /\ gen.runs[r].pc = "scripting"
  /\ LET w == GenWorld(r)
     IN \/ \E err \in Rejections : GenCommit(r, GenFail(w, err))
        \/ \E S \in SUBSET (0..(Len(w.run.allSlides) - 1)) :
             GenCommit(r, StartVoicing(w, Ascending(S)))

\* the handler runs on from setState(step: 'voicing') without an await:
\* new AudioContext() may throw
VoicingStarted(r) ==
  /\ gen.runs[r].pc = "voiceStart"
  /\ \E ctxOk \in BOOLEAN :
       GenCommit(r, EnterVoiceLoop(GenWorld(r), ctxOk))

\* await generateAudio(...) settles
AudioGenerated(r) ==
  /\ ~Running
  /\ gen.runs[r].pc = "voicing"
  /\ LET w == GenWorld(r)
     IN \/ \E err \in Rejections : GenCommit(r, GenFail(w, err))
        \/ GenCommit(r, [w EXCEPT !.run.pc = "decoding"])

\* await decodeAudioData(...) settles
AudioDecoded(r) ==
  /\ ~Running
  /\ gen.runs[r].pc = "decoding"
  /\ LET w == GenWorld(r)
     IN \/ \E err \in Rejections : GenCommit(r, GenFail(w, err))
        \/ GenCommit(r, StoreAudio(w))

\* the application as first rendered (lines 12-29) without a key in the
\* environment, the key dialog opened by the effect of lines 31-33, and
\* files chosen
InitGen ==
  /\ state = [ConfiguredState(<<>>, <<>>, "16:9", 4) EXCEPT
                !.step = "idle", !.progress = 0]
  /\ sess = [s \in Sessions |-> FreshSession]
  /\ guarded = FALSE
  /\ build = "App.tsx"
  /\ frame = NoFrame
  /\ player = NoPlayer
  /\ wav = NoWav
  /\ \E n \in 1..MaxFiles :
       \E files \in [1..n -> FileKinds] :
         gen = [apiKey |-> FALSE, showKeyModal |-> TRUE,
                files |-> files, runs |-> [r \in Runs |-> FreshRun]]

NextGen ==
  \/ SaveKey
  \/ CloseKeyModal
  \/ \E r \in Runs :
       \/ GenerateClick(r)
       \/ FileParsed(r)
       \/ ScriptsGenerated(r)
       \/ VoicingStarted(r)
       \/ AudioGenerated(r)
       \/ AudioDecoded(r)

SpecGen == InitGen /\ [][NextGen]_vars

(***************************************************************************)
(* audioBufferToWav (src/services/audioUtils.ts:2-57).  A call is the      *)
(* record of its locals: numOfChan, length, pos, offset, i, the channels   *)
(* fetched, and view, the writes made through the DataView in their order, *)
(* each with its position, its size in bytes and the value stored.  A      *)
(* DataView setter throws a RangeError when the bytes it is to write do    *)
(* not lie inside the buffer; an element read past the end of a            *)
(* Float32Array is undefined.                                              *)
(***************************************************************************)
\* the samples of the AudioBuffer: a ramp that leaves [-1, 1] on both sides
ChannelData(ch, offset) == ((ch + offset) % 5) - 2

Uint16(v) == v % 65536

\* the low 32 bits, as two halves of 16 bits
Uint32(v) == (v % 65536) + 65536 * ((v \div 65536) % 65536)

\* a plausible slip: the channels left out of the length
WavLengthMono(frames, numOfChan) == frames * 2 + 44

\* const length = buffer.length * numOfChan * 2 + 44
WavLength(frames, numOfChan) == frames * numOfChan * 2 + 44

\* view.setUint16 / setUint32 / setInt16 at pos
ViewSet(w, size, value) ==
  IF w.pos + size > w.length
  THEN [w EXCEPT !.pc = "threw"]
  ELSE [w EXCEPT !.view = Append(@, [at |-> w.pos, size |-> size,
                                     value |-> value])]

Advance(w, size) == IF w.pc = "threw" THEN w ELSE [w EXCEPT !.pos = @ + size]

setUint16(w, data) == Advance(ViewSet(w, 2, Uint16(data)), 2)

setUint32(w, data) == Advance(ViewSet(w, 4, Uint32(data)), 4)

\* the k-th statement of the header
WriteHeader(w, k) ==
  CASE k = 1 -> setUint32(w, 1179011410)
    [] k = 2 -> setUint32(w, w.length - 8)
    [] k = 3 -> setUint32(w, 1163280727)
    [] k = 4 -> setUint32(w, 544501094)
    [] k = 5 -> setUint32(w, 16)
    [] k = 6 -> setUint16(w, 1)
    [] k = 7 -> setUint16(w, w.numOfChan)
    [] k = 8 -> setUint32(w, w.sampleRate)
    [] k = 9 -> setUint32(w, w.sampleRate * 2 * w.numOfChan)
    [] k = 10 -> setUint16(w, w.numOfChan * 2)
    [] k = 11 -> setUint16(w, 16)
    [] k = 12 -> setUint32(w, 1635017060)
    [] k = 13 -> setUint32(w, w.length - w.pos - 4)

HeaderStatements == 13

\* Math.max(-1, Math.min(1, x)), then x * 0x8000 or x * 0x7fff, then | 0;
\* x undefined gives NaN, and NaN | 0 is 0
ScaleSample(x) ==
  LET clamped == IF x < -1 THEN -1 ELSE IF x > 1 THEN 1 ELSE x
  IN IF clamped < 0 THEN clamped * 32768 ELSE clamped * 32767

\* one turn of the inner loop: the sample of channel i at offset is read,
\* scaled and written, pos += 2
WriteSample(w) ==
  LET inside == w.i < w.channels /\ w.offset < w.frames
      sample == IF inside THEN ScaleSample(ChannelData(w.i, w.offset)) ELSE 0
      w1 == [w EXCEPT !.reads = Append(@, [channel |-> w.i,
                                           offset |-> w.offset])]
      w2 == Advance(ViewSet(w1, 2, sample), 2)
  IN IF w2.pc = "threw" THEN w2 ELSE [w2 EXCEPT !.i = @ + 1]

\* audioBufferToWav(buffer): the declarations of lines 2-10
WavCall(numOfChan, frames, sampleRate) ==
  [pc |-> "header", numOfChan |-> numOfChan, frames |-> frames,
   sampleRate |-> sampleRate, length |-> WavLength(frames, numOfChan),
   h |-> 0, channels |-> 0, i |-> 0, offset |-> 0, pos |-> 0,
   view |-> <<>>, reads |-> <<>>]

WavStep(w) ==
  /\ wav' = w
  /\ UNCHANGED <<state, sess, guarded, build, frame, player, gen>>

\* the next statement of the header
WavHeader ==
  /\ wav.pc = "header"
  /\ LET w == WriteHeader(wav, wav.h + 1)
     IN WavStep(IF w.pc = "threw" THEN w
                ELSE [w EXCEPT !.h = @ + 1,
                               !.pc = IF wav.h + 1 = HeaderStatements
                                      THEN "channels" ELSE "header"])

\* for (i = 0; i < buffer.numberOfChannels; i++) channels.push(...)
WavGetChannels ==
  /\ wav.pc = "channels"
  /\ WavStep([wav EXCEPT !.channels = wav.numOfChan, !.i = wav.numOfChan,
                         !.pc = "while"])

\* while (pos < length): the test holds, the inner loop starts at i = 0
WavEnterFrame ==
  /\ wav.pc = "while"
  /\ wav.pos < wav.length
  /\ WavStep([wav EXCEPT !.i = 0, !.pc = "for"])

WavWriteSample ==
  /\ wav.pc = "for"
  /\ wav.i < wav.numOfChan
  /\ WavStep(WriteSample(wav))

\* the inner loop is over: offset++
WavNextFrame ==
  /\ wav.pc = "for"
  /\ wav.i >= wav.numOfChan
  /\ WavStep([wav EXCEPT !.offset = @ + 1, !.pc = "while"])

\* the test of the while fails: return new Blob([outBuffer], ...)
WavReturn ==
  /\ wav.pc = "while"
  /\ wav.pos >= wav.length
  /\ WavStep([wav EXCEPT !.pc = "returned"])

InitWav ==
  /\ state = ReadyState(<<>>, <<>>)
  /\ sess = [s \in Sessions |-> FreshSession]
  /\ guarded = FALSE
  /\ build = "App.tsx"
  /\ frame = NoFrame
  /\ player = NoPlayer
  /\ gen = NoGen
  /\ \E numOfChan \in 1..MaxChannels, frames \in 0..MaxFrames :
       \E sampleRate \in {24000, 48000} :
         wav = WavCall(numOfChan, frames, sampleRate)

NextWav ==
  \/ WavHeader
  \/ WavGetChannels
  \/ WavEnterFrame
  \/ WavWriteSample
  \/ WavNextFrame
  \/ WavReturn

\* the function is synchronous: once called it runs on until it returns or
\* throws
SpecWav == InitWav /\ [][NextWav]_vars /\ WF_vars(NextWav)

(***************************************************************************)
(* Properties.                                                             *)
(***************************************************************************)
Started == {s \in Sessions : sess[s].pc # "idle"}

Events(s, e) == {j \in DOMAIN sess[s].log : sess[s].log[j].ev = e}

EventsAt(s, e, p) == {j \in Events(s, e) : sess[s].log[j].pos = p}

HasAudioAt(s, p) ==
  FindNarration(sess[s].narrations, sess[s].sorted[p + 1].index).audioBuffer

\* C1: in every session and for every insertion order of state.slides, a
\* slide with a smaller index is drawn before a slide with a larger one,
\* and the loop runs over all the slides of state.slides.
C1_DrawnInIndexOrder ==
  \A s \in Started :
    /\ \A j, k \in Events(s, "draw") :
         sess[s].log[j].index < sess[s].log[k].index => j < k
    /\ sess[s].recorder # "none" => Len(sess[s].sorted) = Len(state.slides)

\* a finished session over three slides that were inserted out of order
C1_Witness ==
  \E s \in Started :
    /\ sess[s].pc = "done"
    /\ Cardinality(Events(s, "draw")) = 3
    /\ state.slides[1].index > state.slides[2].index

\* C2: at most one session is between its export request and its stop
\* event or error handler, and at most one recorder and loop belong to it.
C2_OneActiveSession ==
  /\ Cardinality({s \in Sessions : ~Ended(sess[s])}) <= 1
  /\ \A s \in Sessions :
       sess[s].imgs \cup sess[s].playing # {} \/ sess[s].timers # {}
         => ~Ended(sess[s])

\* a session accepted after an earlier one failed is running its loop with
\* the recorder on, and the button refuses a further request
C2_Witness ==
  \E s \in Sessions :
    /\ sess[s].pc = "awaitAudio"
    /\ sess[s].recorder = "recording"
    /\ state.error # NoError
    /\ state.isExporting
    /\ ~ExportButtonEnabled

\* C3: in a session at most one wait (narration playback or dwell timer)
\* is unresolved, at most one narration is playing, and nothing of slide
\* p+1 happens before the wait of slide p has resolved.
C3_StrictlySequential ==
  \A s \in Started :
    /\ Cardinality(sess[s].playing) + Cardinality(sess[s].timers) <= 1
    /\ sess[s].pc = "awaitImg" => sess[s].playing = {} /\ sess[s].timers = {}
    /\ sess[s].playing \cup {t.pos : t \in sess[s].timers} \subseteq {sess[s].i}
    /\ \A j \in DOMAIN sess[s].log :
         LET e == sess[s].log[j]
         IN e.ev \in {"progress", "load", "draw", "play", "timer"} /\ e.pos > 0
            => \E k \in 1..(j - 1) :
                 /\ sess[s].log[k].ev \in {"ended", "timeout"}
                 /\ sess[s].log[k].pos = e.pos - 1

\* the second slide's narration is playing after the first slide's wait
C3_Witness ==
  \E s \in Started :
    /\ sess[s].pc = "awaitAudio"
    /\ sess[s].i = 1
    /\ sess[s].playing = {1}
    /\ EventsAt(s, "ended", 0) \cup EventsAt(s, "timeout", 0) # {}

\* C4: for every slide p the image load comes before the draw of p, the
\* draw before the start of p's narration or dwell timer, that before the
\* end of the wait, and the end of the wait before the draw of p+1.
C4_PerSlideOrder ==
  \A s \in Started :
    \A j \in DOMAIN sess[s].log :
      LET e == sess[s].log[j]
          Before(evs, p) == \E k \in 1..(j - 1) :
                              /\ sess[s].log[k].ev \in evs
                              /\ sess[s].log[k].pos = p
      IN /\ e.ev = "draw" => Before({"load"}, e.pos)
         /\ e.ev \in {"play", "timer"} => Before({"draw"}, e.pos)
         /\ e.ev = "ended" => Before({"play"}, e.pos)
         /\ e.ev = "timeout" => Before({"timer"}, e.pos)
         /\ e.ev = "draw" /\ e.pos > 0 => Before({"ended", "timeout"}, e.pos - 1)

\* the second slide has been drawn and its narration started
C4_Witness ==
  \E s \in Started :
    /\ EventsAt(s, "draw", 1) # {}
    /\ EventsAt(s, "play", 1) # {}
    /\ EventsAt(s, "ended", 0) # {}

\* C5: a session that has run its loop to the end (the recorder is asked
\* to stop) has drawn each of the N slides once, in the order of the loop.
C5_OneDrawPerSlide ==
  \A s \in Started :
    sess[s].pc \in {"awaitStop", "done"} =>
      /\ Cardinality(Events(s, "draw")) = Len(state.slides)
      /\ \A p \in 0..(Len(state.slides) - 1) :
           Cardinality(EventsAt(s, "draw", p)) = 1
      /\ \A j, k \in Events(s, "draw") :
           sess[s].log[j].pos < sess[s].log[k].pos => j < k

\* a finished session over three slides, one of them without narration
C5_Witness ==
  \E s \in Started :
    /\ sess[s].pc = "done"
    /\ Len(state.slides) = 3
    /\ Len(state.narrations) = 2
    /\ Cardinality(Events(s, "draw")) = 3

\* C6: for a slide with decoded narration audio no dwell timer is started,
\* and what follows the start of its playback is the onended signal of
\* that playback and nothing else: the loop advances on it alone.
C6_AdvanceOnEnded ==
  \A s \in Started :
    \A p \in 0..(Len(sess[s].sorted) - 1) :
      HasAudioAt(s, p) =>
        /\ EventsAt(s, "timer", p) \cup EventsAt(s, "timeout", p) = {}
        /\ \A t \in sess[s].timers : t.pos # p
        /\ \A j \in EventsAt(s, "play", p) :
             IF j = Len(sess[s].log)
             THEN sess[s].pc = "awaitAudio" /\ sess[s].i = p
             ELSE sess[s].log[j + 1] = Ev("ended", p, sess[s].sorted[p + 1].index, 0)
        /\ \A j \in DOMAIN sess[s].log :
             (sess[s].log[j].pos > p \/ sess[s].log[j].ev = "recorder.stop")
               => EventsAt(s, "ended", p) # {}

\* the loop has moved to the second slide after the first one's onended
C6_Witness ==
  \E s \in Started :
    /\ sess[s].sorted # <<>>
    /\ HasAudioAt(s, 0)
    /\ EventsAt(s, "ended", 0) # {}
    /\ EventsAt(s, "progress", 1) # {}

\* C7: for a slide without a narration entry, or whose entry has no decoded
\* audio, no playback is started, the draw is followed by a timer of
\* 3000 ms, and the timer's firing is followed by the next turn of the
\* loop (or the stop request), never by the error handler.
C7_FallbackDwell ==
  \A s \in Started :
    \A p \in 0..(Len(sess[s].sorted) - 1) :
      ~HasAudioAt(s, p) =>
        /\ EventsAt(s, "play", p) = {}
        /\ p \notin sess[s].playing
        /\ \A j \in EventsAt(s, "draw", p) :
             /\ j < Len(sess[s].log)
             /\ sess[s].log[j + 1].ev = "timer"
             /\ sess[s].log[j + 1].pos = p
             /\ sess[s].log[j + 1].arg = 3000
        /\ \A j \in EventsAt(s, "timer", p) :
             IF j = Len(sess[s].log)
             THEN /\ sess[s].pc = "awaitDwell"
                  /\ sess[s].timers = {[pos |-> p, ms |-> 3000]}
             ELSE /\ sess[s].log[j + 1].ev = "timeout"
                  /\ sess[s].log[j + 1].arg = 3000
                  /\ j + 1 < Len(sess[s].log)
                  /\ sess[s].log[j + 2].ev \in {"progress", "recorder.stop"}

\* a finished session with a slide that has no narration entry and a
\* slide whose entry has no decoded audio, both shown for the dwell
C7_Witness ==
  \E s \in Started :
    /\ sess[s].pc = "done"
    /\ \E p, q \in 0..(Len(sess[s].sorted) - 1) :
         /\ FindNarration(sess[s].narrations, sess[s].sorted[p + 1].index)
              = NoNarration
         /\ FindNarration(sess[s].narrations, sess[s].sorted[q + 1].index)
              \notin {NoNarration}
         /\ ~HasAudioAt(s, q)
         /\ EventsAt(s, "timeout", p) # {}
         /\ EventsAt(s, "timeout", q) # {}

\* C8: progress is reported once per slide, before the slide is drawn,
\* with the value floor(i * 100 / N) for position i of N; the reported
\* values never decrease within a session, and state.progress keeps the
\* last reported value while a narration or dwell wait is pending.
C8_ProgressPerSlide ==
  \A s \in Started :
    /\ \A j \in Events(s, "progress") :
         sess[s].log[j].arg = (sess[s].log[j].pos * 100) \div Len(sess[s].sorted)
    /\ \A j \in Events(s, "draw") :
         /\ Cardinality(EventsAt(s, "progress", sess[s].log[j].pos)) = 1
         /\ \A k \in EventsAt(s, "progress", sess[s].log[j].pos) : k < j
    /\ \A j, k \in Events(s, "progress") :
         j < k => sess[s].log[j].arg <= sess[s].log[k].arg
    /\ sess[s].pc \in {"awaitAudio", "awaitDwell"} =>
         \E j \in EventsAt(s, "progress", sess[s].i) :
           state.progress = sess[s].log[j].arg

\* C9 as stated: a session that has finished has progress 100.
C9_ProgressReaches100 ==
  \A s \in Started : sess[s].pc = "done" => state.progress = 100

\* C9 as amended: finalization leaves progress as the loop last set it.  A
\* finished session shows the value reported for its last slide, which is
\* below 100; for 3 slides the values reported are 0, 33, 66 and 66 stays.
C9_ProgressKeptAtFinalize ==
  \A s \in Started :
    sess[s].pc = "done" =>
      /\ state.progress < 100
      /\ \E j \in EventsAt(s, "progress", Len(sess[s].sorted) - 1) :
           state.progress = sess[s].log[j].arg
      /\ Len(sess[s].sorted) = 3 =>
           /\ state.progress = 66
           /\ {sess[s].log[j].arg : j \in Events(s, "progress")} = {0, 33, 66}

\* a finished session over three slides
C9_Witness ==
  \E s \in Started :
    /\ sess[s].pc = "done"
    /\ Len(sess[s].sorted) = 3
    /\ sess[s].downloads # <<>>

\* C10: once an image of the loop has failed to decode, the session is in
\* its error state: an error message is set, isExporting is false and
\* nothing has been downloaded.
C10_DecodeFailureErrors ==
  \A s \in Started :
    sess[s].failedImgs # {} =>
      /\ sess[s].pc = "errored"
      /\ state.error # NoError
      /\ ~state.isExporting
      /\ sess[s].downloads = <<>>

Errored == {s \in Sessions : sess[s].pc = "errored"}

\* C11: a session whose export has thrown has its error event as the last
\* thing it did (no slide is loaded, drawn or played after it and nothing
\* is pending), its recorder was never asked to stop, it has downloaded
\* nothing, state.error is a message and isExporting is false.
C11_ExceptionHalts ==
  \A s \in Errored :
    /\ sess[s].log # <<>>
    /\ sess[s].log[Len(sess[s].log)].ev = "error"
    /\ Cardinality(Events(s, "error")) = 1
    /\ sess[s].imgs = {} /\ sess[s].playing = {} /\ sess[s].timers = {}
    /\ Events(s, "recorder.stop") = {}
    /\ sess[s].recorder # "inactive"
    /\ sess[s].recEvents = <<>>
    /\ Events(s, "download") = {}
    /\ sess[s].downloads = <<>>
    /\ state.error # NoError
    /\ ~state.isExporting

\* a session that threw at the second slide, after the first was drawn and
\* played, with the recorder still running
C11_Witness ==
  \E s \in Errored :
    /\ EventsAt(s, "ended", 0) # {}
    /\ EventsAt(s, "draw", 1) # {}
    /\ EventsAt(s, "play.failed", 1) # {}
    /\ sess[s].recorder = "recording"
    /\ Len(sess[s].sorted) = 3

\* C12: a session in which the 2D context could not be acquired or the
\* recorder could not be created is in its error state with an error
\* message set, its recorder was never created or started, and it has
\* drawn, loaded and played nothing.
C12_InitFailureAborts ==
  \A s \in Started :
    Events(s, "init.failed") # {} =>
      /\ sess[s].pc = "errored"
      /\ state.error # NoError
      /\ ~state.isExporting
      /\ sess[s].recorder = "none"
      /\ Events(s, "recorder.start") = {}
      /\ \A j \in DOMAIN sess[s].log :
           sess[s].log[j].ev \in {"init.failed", "error"}
      /\ sess[s].sorted = <<>>
      /\ sess[s].imgs = {}

\* the canvas of the session was sized and its recorder could not be created
C12_Witness ==
  \E s \in Started :
    /\ \E j \in Events(s, "init.failed") : sess[s].log[j].arg = 2
    /\ sess[s].pc = "errored"
    /\ sess[s].canvas.width > 0

\* C13: the recorder is asked to stop after the wait of every slide has
\* resolved; while the stop event is outstanding isExporting stays true and
\* nothing is downloaded; a download has the stop request before it and
\* happens when the recorder has delivered its data and its stop event.
C13_FinalizeOnStopEvent ==
  \A s \in Started :
    /\ \A j \in Events(s, "recorder.stop") :
         \A p \in 0..(Len(sess[s].sorted) - 1) :
           \E k \in 1..(j - 1) :
             /\ sess[s].log[k].ev \in {"ended", "timeout"}
             /\ sess[s].log[k].pos = p
    /\ sess[s].pc = "awaitStop" =>
         /\ sess[s].recEvents # <<>>
         /\ state.isExporting
         /\ sess[s].downloads = <<>>
         /\ Events(s, "download") = {}
    /\ \A j \in Events(s, "download") :
         /\ sess[s].recEvents = <<>>
         /\ sess[s].pc = "done"
         /\ Len(sess[s].downloads) = 1
         /\ \E k \in 1..(j - 1) : sess[s].log[k].ev = "recorder.stop"
    /\ sess[s].recorder = "recording" => state.isExporting \/ sess[s].pc = "errored"

\* the recorder has been stopped and has delivered its data, the stop
\* event is still to come
C13_Witness ==
  \E s \in Started :
    /\ sess[s].pc = "awaitStop"
    /\ sess[s].recEvents = <<"stop">>
    /\ Len(sess[s].chunks) = 1
    /\ Events(s, "recorder.stop") # {}
    /\ state.isExporting

\* C14: when state.slides is empty, or state.narrations is empty, an export
\* request changes nothing: no closure leaves its initial state (no canvas,
\* recorder or loop), isExporting stays false, progress and error stay as
\* they were, and the handler returns at its guard only in these cases.
C14_GuardedNoOp ==
  /\ guarded => ExportGuardReturns(state)
  /\ Len(state.slides) = 0 \/ Len(state.narrations) = 0 =>
       /\ \A s \in Sessions : sess[s] = FreshSession
       /\ ~state.isExporting
       /\ state.progress = 100
       /\ state.error = NoError

\* the handler has returned at its guard for an empty deck
C14_Witness ==
  /\ guarded
  /\ Len(state.slides) = 0
  /\ ExportButtonEnabled

\* the closure in slot s has ended and this step replaces it by a new one
Restarted(s) == sess[s].pc \in {"done", "errored"} /\ sess'[s] # sess[s]

\* C15: the step that ends a session, in done or in errored, leaves
\* isExporting false and the export button enabled; the step that accepts
\* the next request starts a closure at the first slide with progress 0,
\* no chunks, no download and nothing of a later slide.
C15_FreshRestart ==
  [][\A s \in Sessions :
       /\ ~Ended(sess[s]) /\ Ended(sess'[s]) =>
            ~state'.isExporting /\ ExportButtonEnabled'
       /\ Restarted(s) =>
            /\ ExportButtonEnabled
            /\ state'.progress = 0
            /\ state'.isExporting = (sess'[s].pc # "errored")
            /\ sess'[s].pc \in {"awaitResume", "awaitImg", "errored"}
            /\ sess'[s].i = 0
            /\ sess'[s].chunks = <<>>
            /\ sess'[s].downloads = <<>>
            /\ sess'[s].recEvents = <<>>
            /\ \A j \in DOMAIN sess'[s].log : sess'[s].log[j].pos = 0
            /\ sess'[s].pc = "awaitImg" =>
                 /\ sess'[s].imgs = {0}
                 /\ Len(sess'[s].log) = 2
                 /\ sess'[s].log[1].ev = "recorder.start"
                 /\ sess'[s].log[2].ev = "progress"
                 /\ sess'[s].log[2].arg = 0
     ]_vars

\* a request accepted after a failed session: its closure is at the first
\* slide, the error of the failed session is still shown
C15_Witness ==
  \E s \in Started :
    /\ sess[s].pc = "awaitImg"
    /\ sess[s].i = 0
    /\ sess[s].chunks = <<>>
    /\ state.progress = 0
    /\ state.isExporting
    /\ state.error # NoError

\* C16: a recorder that has delivered no data does not end its session
\* with a download: the session is in its error state, an error message is
\* set and isExporting is false.
C16_EmptyOutputErrors ==
  \A s \in Started :
    /\ sess[s].recorder = "inactive"
    /\ sess[s].recEvents = <<>>
    /\ \A k \in DOMAIN sess[s].chunks : sess[s].chunks[k].size = 0
    => /\ sess[s].pc = "errored"
       /\ state.error # NoError
       /\ ~state.isExporting
       /\ sess[s].downloads = <<>>

\* C17: a slide whose narration could not be played gets the dwell timer
\* and the session goes on: it is not in its error state.
C17_PlayFailureFallsBack ==
  \A s \in Started :
    \A j \in Events(s, "play.failed") :
      /\ sess[s].pc # "errored"
      /\ \E k \in EventsAt(s, "timer", sess[s].log[j].pos) : k > j

BaseSize ==
  [a \in AspectRatios |->
     CASE a = "16:9" -> <<1280, 720>>
       [] a = "9:16" -> <<720, 1280>>
       [] a = "1:1" -> <<1080, 1080>>
       [] a = "4:3" -> <<1024, 768>>]

\* the closures that have gone past the sizing of the canvas: they have
\* failed to initialize after it or have started their recorder
Sized ==
  {s \in Sessions : Events(s, "init.failed") \cup Events(s, "recorder.start") # {}}

\* C18: the canvas of a session is the base size of the configured aspect
\* ratio (1280x720, 720x1280, 1080x1080, 1024x768) times the configured
\* scale in width and in height; 9:16 at scale 2 is 1440x2560.
C18_CanvasSize ==
  \A s \in Sized :
    /\ sess[s].aspectRatio = state.aspectRatio
    /\ sess[s].resolutionScale = state.resolutionScale
    /\ sess[s].canvas.width = BaseSize[state.aspectRatio][1] * state.resolutionScale
    /\ sess[s].canvas.height = BaseSize[state.aspectRatio][2] * state.resolutionScale
    /\ state.aspectRatio = "9:16" /\ state.resolutionScale = 2 =>
         sess[s].canvas = [width |-> 1440, height |-> 2560]

\* a session recording at 9:16 and scale 2 on a canvas of 1440x2560
C18_Witness ==
  \E s \in Sized :
    /\ state.aspectRatio = "9:16"
    /\ state.resolutionScale = 2
    /\ sess[s].canvas = [width |-> 1440, height |-> 2560]
    /\ sess[s].recorder = "recording"

\* C19: the videoBitsPerSecond of a created recorder is the smaller of
\* 12,000,000 * scale * scale and 100,000,000: 12,000,000 at scale 1,
\* 48,000,000 at scale 2, and the cap of 100,000,000 at scales 3 and 4.
C19_BitrateCapped ==
  \A s \in Sessions :
    sess[s].recorder # "none" =>
      LET scale == state.resolutionScale
          bits == sess[s].videoBitsPerSecond
      IN /\ bits <= 100000000
         /\ bits <= 12000000 * scale * scale
         /\ bits = 100000000 \/ bits = 12000000 * scale * scale
         /\ bits = <<12000000, 48000000, 100000000, 100000000>>[scale]

\* a recorder created at scale 3, where 108,000,000 is cut to the cap
C19_Witness ==
  \E s \in Sessions :
    /\ sess[s].recorder = "recording"
    /\ state.resolutionScale = 3
    /\ sess[s].videoBitsPerSecond = 100000000

\* the positions a closure may move to from a position, besides errored
PcSuccessors ==
  [pc \in {"idle", "awaitResume", "awaitImg", "awaitAudio", "awaitDwell",
           "awaitStop", "done", "errored"} |->
     CASE pc = "idle" -> {"awaitResume", "awaitImg"}
       [] pc = "awaitResume" -> {"awaitImg"}
       [] pc = "awaitImg" -> {"awaitAudio", "awaitDwell"}
       [] pc \in {"awaitAudio", "awaitDwell"} -> {"awaitImg", "awaitStop"}
       [] pc = "awaitStop" -> {"done"}
       [] OTHER -> {}]

\* C20: a closure moves from idle through initialization (awaiting resume)
\* to the loop with the recorder on (load, then the wait, per slide), then
\* to the stop request and to done, or from a position before done to
\* errored; the recorder goes from none to recording to inactive and is on
\* exactly during the loop; a closure in done or errored does not change
\* any more (the next request replaces it by a new closure).
C20_SessionOrder ==
  [][\A s \in Sessions :
       /\ sess[s].recorder = "none" <=>
            \/ sess[s].pc \in {"idle", "awaitResume"}
            \/ sess[s].pc = "errored" /\ Events(s, "recorder.start") = {}
       /\ sess[s].pc \in {"awaitImg", "awaitAudio", "awaitDwell"}
            => sess[s].recorder = "recording"
       /\ sess[s].pc \in {"awaitStop", "done"} <=> sess[s].recorder = "inactive"
       /\ sess[s].pc \in {"done", "errored"} =>
            \/ sess'[s] = sess[s]
            \/ /\ ExportButtonEnabled
               /\ sess'[s].pc \in PcSuccessors["idle"] \cup {"errored"}
               /\ sess'[s].chunks = <<>>
               /\ sess'[s].recEvents = <<>>
               /\ \A j \in DOMAIN sess'[s].log : sess'[s].log[j].pos = 0
       /\ sess[s].pc \notin {"done", "errored"} =>
            /\ sess'[s].pc \in {sess[s].pc, "errored"} \cup PcSuccessors[sess[s].pc]
            /\ sess'[s].recorder = sess[s].recorder
                 \/ <<sess[s].recorder, sess'[s].recorder>>
                      \in {<<"none", "recording">>, <<"recording", "inactive">>}
            /\ sess[s].recorder # "none" => sess'[s].pc # "awaitResume"
     ]_vars

\* a session that went through initialization with a suspended audio
\* context, the loop over two slides and the stop request, and is done
C20_Witness ==
  \E s \in Sessions :
    /\ sess[s].pc = "done"
    /\ sess[s].recorder = "inactive"
    /\ Len(sess[s].sorted) = 2
    /\ Events(s, "recorder.stop") # {}
    /\ Events(s, "download") # {}

\* C21: a call that has run its loop to the end has a canvas and a sequence
\* of drawn slides that depend on state.slides and the configuration alone
\* (each slide once, by ascending index, on the canvas of the configured
\* size), and they are those of the call before it that finished, whether
\* or not either call had to wait for the audio context.
C21_RunsAgree ==
  \A s \in Sessions :
    sess[s].pc \in {"awaitStop", "done"} =>
      LET out == Output(sess[s])
      IN /\ out.canvas = CanvasSize(state.aspectRatio, state.resolutionScale)
         /\ Len(out.frames) = Len(state.slides)
         /\ \A j, k \in DOMAIN out.frames : j < k => out.frames[j] < out.frames[k]
         /\ {out.frames[j] : j \in DOMAIN out.frames}
              = {state.slides[j].index : j \in DOMAIN state.slides}
         /\ sess[s].last # <<>> => out = sess[s].last[1]

\* a call has finished after another call that finished
C21_Witness ==
  \E s \in Sessions :
    /\ sess[s].pc = "done"
    /\ sess[s].last # <<>>
    /\ Len(sess[s].last[1].frames) = 2
    /\ state.aspectRatio = "4:3"
    /\ state.resolutionScale = 3

\* C22 as stated: the name of a downloaded file is 'SlideStream', '_', the
\* aspect-ratio token, '_', the scale, 'x', '_', the time, '.', the
\* extension.
C22_FilenamePattern ==
  \A s \in Sessions :
    \A j \in DOMAIN sess[s].downloads :
      \E now \in Clock :
        \E ext \in {"webm", "mp4"} :
          sess[s].downloads[j].filename =
            <<"SlideStream", "_">>
              \o ReplaceFirst(AspectRatioText(state.aspectRatio), ":", "x")
              \o <<"_">> \o NumberToString(state.resolutionScale)
              \o <<"x", "_">> \o NumberToString(now) \o <<".", ext>>

AspectRatioToken ==
  [a \in AspectRatios |->
     CASE a = "16:9" -> <<"16", "x", "9">>
       [] a = "9:16" -> <<"9", "x", "16">>
       [] a = "1:1" -> <<"1", "x", "1">>
       [] a = "4:3" -> <<"4", "x", "3">>]

\* C22 as amended: the name is SlideStream_Concatenated_, the aspect ratio
\* with its colon written x (16x9, 9x16, 1x1, 4x3), '_', the scale as one
\* digit, 'x_', the time in decimal digits, and '.webm'.
C22_FilenameConcatenated ==
  \A s \in Sessions :
    \A j \in DOMAIN sess[s].downloads :
      LET name == sess[s].downloads[j].filename
          n == Len(name)
          token == AspectRatioToken[state.aspectRatio]
      IN /\ SubSeq(name, 1, 4) = <<"SlideStream", "_", "Concatenated", "_">>
         /\ SubSeq(name, 5, 7) = token
         /\ SubSeq(name, 8, 11)
              = <<"_", <<"1", "2", "3", "4">>[state.resolutionScale], "x", "_">>
         /\ SubSeq(name, n - 1, n) = <<".", "webm">>
         /\ SubSeq(name, 12, n - 2) \in {<<"9", "0", "7">>, <<"1", "2", "3", "0">>}
         /\ \A k \in DOMAIN name : name[k] # ":"

\* a file downloaded at 9:16 and scale 2 when the clock read 1230
C22_Witness ==
  \E s \in Sessions :
    /\ sess[s].pc = "done"
    /\ Len(sess[s].downloads) = 1
    /\ sess[s].downloads[1].filename
         = <<"SlideStream", "_", "Concatenated", "_", "9", "x", "16", "_",
             "2", "x", "_", "1", "2", "3", "0", ".", "webm">>

\* C24: a session that is done has triggered one download; its blob is the
\* sequence of all the chunks the recorder delivered, in the order of
\* delivery, and the recorder has nothing left to deliver.
C24_BlobOfAllChunks ==
  \A s \in Sessions :
    sess[s].pc = "done" =>
      /\ Len(sess[s].downloads) = 1
      /\ Cardinality(Events(s, "download")) = 1
      /\ sess[s].recEvents = <<>>
      /\ sess[s].chunks # <<>>
      /\ sess[s].downloads[1].blob = sess[s].chunks
      /\ \A k \in DOMAIN sess[s].downloads[1].blob :
           sess[s].downloads[1].blob[k].id = k

\* a session is done whose recorder delivered two chunks, the first empty
C24_Witness ==
  \E s \in Sessions :
    /\ sess[s].pc = "done"
    /\ Len(sess[s].chunks) = 2
    /\ sess[s].chunks[1].size = 0
    /\ sess[s].chunks[2].size = 1
    /\ Len(sess[s].downloads[1].blob) = 2

\* C23: for every slide with decoded audio whose playback was started, one
\* source was created for it, connected to the capture destination and
\* then started, once each and in this order; the source is no other
\* slide's, and no source is created for a slide without decoded audio.
C23_OneSourcePerSlide ==
  \A s \in Started :
    /\ \A j \in Events(s, "play") :
         LET p == sess[s].log[j].pos
             source == sess[s].log[j].arg
         IN /\ HasAudioAt(s, p)
            /\ EventsAt(s, "play", p) = {j}
            /\ j > 2
            /\ sess[s].log[j - 2] = Ev("createBufferSource", p, sess[s].log[j].index, source)
            /\ sess[s].log[j - 1] = Ev("connect", p, sess[s].log[j].index, source)
            /\ Cardinality(EventsAt(s, "createBufferSource", p)) = 1
            /\ Cardinality(EventsAt(s, "connect", p)) = 1
            /\ \A k \in Events(s, "play") :
                 k # j => sess[s].log[k].arg # source
    /\ \A j \in Events(s, "createBufferSource") \cup Events(s, "connect") :
         /\ HasAudioAt(s, sess[s].log[j].pos)
         /\ EventsAt(s, "play", sess[s].log[j].pos) # {}

\* the second narrated slide of a session is playing from its own source
C23_Witness ==
  \E s \in Started :
    /\ sess[s].pc = "awaitAudio"
    /\ sess[s].i = 1
    /\ \E j \in EventsAt(s, "play", 0) : sess[s].log[j].arg = 1
    /\ \E j \in EventsAt(s, "play", 1) : sess[s].log[j].arg = 2

\* C26: a session of the handler of part_003 that has run its loop to the
\* end has drawn every slide, and has set the dwell timer for every slide
\* without decoded narration audio.
C26_LegacyDwell ==
  \A s \in Started :
    sess[s].build = "part_003" /\ sess[s].pc \in {"awaitStop", "done"} =>
      \A p \in 0..(Len(sess[s].sorted) - 1) :
        /\ EventsAt(s, "draw", p) # {}
        /\ ~HasAudioAt(s, p) => EventsAt(s, "timeout", p) # {}

\* C27: when every awaited signal that is pending is delivered,
\* isExporting does not stay true: every session that has started gets to
\* done or to errored with isExporting false.
C27_SessionEnds ==
  /\ state.isExporting ~> ~state.isExporting
  /\ \A s \in Sessions :
       ~Ended(sess[s]) ~> (Ended(sess[s]) /\ ~state.isExporting)

\* the drawn rectangle on one axis: its offset is not negative and offset
\* plus side does not pass the canvas side (all doubled)
AxisInside(c, offset, side) ==
  /\ offset.sign >= 0
  /\ ~FixLess(FixOfInt(2 * c),
              FixSum(offset.twice, ToFix(side), ToFix(side)))

\* the drawn side is the canvas side
AxisExact(c, offset, side) ==
  /\ offset.sign = 0
  /\ ToFix(side) = FixOfInt(c)

\* C25: for every positive image size and canvas size, the frame fills the
\* whole canvas and then draws the image with the uniform scale
\* min(canvasWidth/imageWidth, canvasHeight/imageHeight), so that the drawn
\* rectangle lies entirely inside the canvas and fills it exactly on at
\* least one axis.
C25_Letterbox ==
  \A j \in DOMAIN frame.drawn :
    LET r == frame.drawn[j]
        c == frame.canvas
    IN /\ r.fill = [x |-> 0, y |-> 0, width |-> c.width, height |-> c.height]
       /\ r.scale = NumberMin(NumberQuotient(c.width, frame.img.width),
                              NumberQuotient(c.height, frame.img.height))
       /\ AxisInside(c.width, r.x, r.width)
       /\ AxisInside(c.height, r.y, r.height)
       /\ \/ AxisExact(c.width, r.x, r.width)
          \/ AxisExact(c.height, r.y, r.height)

\* C28: in PresentationPlayer, currentSlideIndex stays within
\* 0..slides.length-1 after any sequence and interleaving of play/pause,
\* next, previous and thumbnail clicks and 'ended' events, those of a source
\* that stopAudio stopped included.
C28_IndexInRange ==
  player # NoPlayer => player.currentSlideIndex \in 0..(player.slides - 1)

\* C29: in PresentationPlayer, pausing leaves currentSlideIndex unchanged:
\* the 'ended' event of the source that the pause stopped does not advance
\* the player to the next slide.
C29_PauseKeepsSlide ==
  [][(/\ player.ended # <<>>
      /\ Head(player.ended).cause = "pause"
      /\ player'.ended = Tail(player.ended))
     => player'.currentSlideIndex = player.currentSlideIndex]_vars

\* the moves of the step that generation is to make
StepMoves == {<<"idle", "parsing">>, <<"parsing", "scripting">>,
              <<"scripting", "voicing">>, <<"voicing", "ready">>,
              <<"parsing", "idle">>, <<"scripting", "idle">>,
              <<"voicing", "idle">>}

\* a call of handleStartGeneration fails in this step
GenFails(r) == gen.runs[r].pc # "failed" /\ gen'.runs[r].pc = "failed"

\* C30: handleStartGeneration moves the step only along idle -> parsing ->
\* scripting -> voicing -> ready, one stage at a time; the step is 'ready'
\* only when every narration has its decoded audio; a failure at any stage
\* puts the step back to 'idle' with an error that is not null.
C30_StepSequence ==
  [][/\ state'.step # state.step => <<state.step, state'.step>> \in StepMoves
     /\ state'.step = "ready" =>
          \A j \in DOMAIN state'.narrations : state'.narrations[j].audioBuffer
     /\ \A r \in DOMAIN gen.runs :
          GenFails(r) => state'.step = "idle" /\ state'.error # NoError]_vars

\* C31: whenever the step is 'ready' after handleStartGeneration, every
\* narration segment of state.narrations has its decoded audioBuffer (so
\* that the export takes the fallback dwell only for a slide with no
\* narration entry).
C31_ReadyHasAudio ==
  (gen # NoGen /\ state.step = "ready") =>
    \A j \in DOMAIN state.narrations : state.narrations[j].audioBuffer

\* the slides are numbered 0..N-1 in array order
Numbered(slides) == \A j \in DOMAIN slides : slides[j].index = j - 1

\* C32: after ingestion in handleStartGeneration the slide indices are
\* unique and contiguous, 0..N-1 in array order, whatever the mix and order
\* of PDF and image files; a file of another type takes no index.
C32_IndicesContiguous ==
  /\ Numbered(state.slides)
  /\ gen # NoGen =>
       \A r \in Runs :
         /\ Numbered(gen.runs[r].allSlides)
         /\ gen.runs[r].slideCounter = Len(gen.runs[r].allSlides)

\* an image, then a PDF of two pages, have been ingested into three slides
C32_Witness ==
  /\ gen # NoGen
  /\ gen.files = <<"image", "pdf">>
  /\ state.step = "scripting"
  /\ Len(state.slides) = 3

\* the progress values of one call, as the claim lists them, for n narrations
ProgressShape(rep, n) ==
  \A j \in DOMAIN rep :
    IF j = 1 THEN rep[j] = 10
    ELSE IF j = 2 THEN rep[j] = 30
    ELSE IF j = 3 THEN rep[j] = 60
    ELSE IF j <= n + 3
    THEN rep[j] = 60 + ((j - 3) * 35) \div n /\ rep[j] <= 95
    ELSE j = n + 4 /\ rep[j] = 100

\* C33: during one run of handleStartGeneration the progress it sets never
\* decreases and stays within 0..100: 10, 30, 60, then
\* 60 + floor((i+1)/n*35) for narration i of n, at most 95, and 100 only
\* together with step 'ready'.
C33_ProgressOfRun ==
  [][\A r \in DOMAIN gen.runs :
       gen'.runs[r].reported # gen.runs[r].reported =>
         LET rep == gen'.runs[r].reported
         IN /\ state'.progress = rep[Len(rep)]
            /\ \A j \in DOMAIN rep : rep[j] \in 0..100
            /\ \A j, k \in DOMAIN rep : j < k => rep[j] <= rep[k]
            /\ ProgressShape(rep, Len(gen'.runs[r].narrations))
            /\ rep[Len(rep)] = 100 => state'.step = "ready"]_vars

\* a run has voiced two narrations and finished
C33_Witness ==
  /\ gen # NoGen
  /\ \E r \in Runs : gen.runs[r].reported = <<10, 30, 60, 77, 95, 100>>
  /\ state.progress = 100

\* C34: for each slide the export plays at most one narration, the first
\* entry of state.narrations whose slideIndex is the slide's index; an entry
\* whose slideIndex is no slide's index is never played, and with unique
\* slide indices no entry is played more than once in a session.
C34_FirstEntryPlayed ==
  \A s \in Started :
    LET narrations == sess[s].narrations
        played == sess[s].buffers
        indices == {sess[s].slides[j].index : j \in DOMAIN sess[s].slides}
    IN /\ Len(played) = Cardinality(Events(s, "play"))
       /\ \A p \in 0..(Len(sess[s].sorted) - 1) :
            Cardinality(EventsAt(s, "play", p)) <= 1
       /\ \A j \in Events(s, "play") :
            \E b \in DOMAIN played :
              LET e == played[b].narration
              IN /\ played[b].source = sess[s].log[j].arg
                 /\ e \in DOMAIN narrations
                 /\ narrations[e].slideIndex = sess[s].log[j].index
                 /\ \A k \in 1..(e - 1) :
                      narrations[k].slideIndex # sess[s].log[j].index
       /\ \A b \in DOMAIN played :
            narrations[played[b].narration].slideIndex \in indices
       /\ Cardinality(indices) = Len(sess[s].slides) =>
            \A b, c \in DOMAIN played :
              b # c => played[b].narration # played[c].narration

\* a session is over for a deck of two slides with two entries for slide 1
\* and one entry for no slide: one narration was played, the first of the
\* two
C34_Witness ==
  \E s \in Started :
    /\ sess[s].pc = "done"
    /\ Len(sess[s].slides) = 2
    /\ sess[s].narrations = <<NarrationSegment(2, TRUE),
                              NarrationSegment(1, TRUE),
                              NarrationSegment(1, TRUE)>>
    /\ sess[s].buffers = <<[source |-> 1, narration |-> 2]>>

\* C35: a step of handleExportBrowser or of one of its callbacks writes no
\* field of state other than isExporting, progress and error: slides,
\* narrations, step, aspectRatio and resolutionScale keep their values, and
\* the sort of the slides leaves the array in state as it was.
C35_OnlyExportFields ==
  [][[state' EXCEPT !.isExporting = state.isExporting,
                    !.progress = state.progress,
                    !.error = state.error] = state]_vars

\* an export has run to its download over slides that the state holds out
\* of order: the handler looped over a sorted copy
C35_Witness ==
  \E s \in Started :
    /\ sess[s].pc = "done"
    /\ Len(state.slides) >= 2
    /\ sess[s].sorted # state.slides
    /\ sess[s].sorted = sortedSlides(state.slides)

\* the closure in slot s throws in this step
Throws(s) == sess'[s].pc = "errored" /\ sess'[s] # sess[s]

\* C36: a step that accepts an export request and does not throw, and a step
\* that completes an export with its download, leave state.error as it was;
\* state.error changes only in a step in which an export throws, so a
\* message set by a failed export is still set after a later one succeeds.
C36_ErrorKept ==
  [][/\ \A s \in Sessions :
          /\ Ended(sess[s]) /\ ~Ended(sess'[s]) => state'.error = state.error
          /\ sess[s].pc # "done" /\ sess'[s].pc = "done" =>
               state'.error = state.error
     /\ state'.error # state.error => \E s \in Sessions : Throws(s)
     /\ state.error # NoError => state'.error = state.error]_vars

\* the only closure there is has ended with its download and the message of
\* the export that failed before it is still set
C36_Witness ==
  /\ sess[1].pc = "done"
  /\ sess[1].downloads # <<>>
  /\ Events(1, "error") = {}
  /\ \A s \in Sessions \ {1} : sess[s] = FreshSession
  /\ state.error = ExportErrorMsg
  /\ ~state.isExporting

\* what holds of a call of audioBufferToWav at every point
WavLayout ==
  wav.pc # "none" =>
    /\ wav.pc # "threw"
    /\ wav.pos <= wav.length
    /\ \A j \in DOMAIN wav.view :
         /\ wav.view[j].at >= 0
         /\ wav.view[j].at + wav.view[j].size <= wav.length
    /\ \A j \in DOMAIN wav.reads :
         /\ wav.reads[j].offset < wav.frames
         /\ wav.reads[j].channel < wav.numOfChan
    /\ wav.h >= 2 =>
         wav.view[2].at = 4 /\ wav.view[2].value = wav.length - 8
    /\ wav.h >= HeaderStatements =>
         wav.view[13].at = 40 /\ wav.view[13].value = wav.length - 44
    /\ wav.pc \in {"while", "for", "returned"} =>
         wav.pos = 44 + 2 * Len(wav.reads)
    /\ wav.pc = "returned" =>
         /\ wav.pos = wav.length
         /\ wav.pos = 44 + 2 * wav.numOfChan * wav.frames
         /\ Len(wav.reads) = wav.numOfChan * wav.frames

\* C37: in audioBufferToWav, for every channel count >= 1 and frame count
\* >= 0, the write loop ends, with pos equal to the length
\* 44 + 2 * channels * frames; every write lies inside the output buffer,
\* every sample is read at an offset below the frame count, the RIFF size
\* written is length - 8 and the data chunk size is length - 44.
C37_WavLayout == []WavLayout /\ <>(wav.pc = "returned")

\* a stereo buffer of three frames has been written out
C37_Witness ==
  /\ wav.pc = "returned"
  /\ wav.numOfChan = 2
  /\ wav.frames = 3
  /\ wav.pos = 56
  /\ Len(wav.view) = HeaderStatements + 6
  /\ wav.view[Len(wav.view)].at = 54
  /\ wav.reads[6] = [channel |-> 1, offset |-> 2]

====
